---- MODULE Spec2Model ----
(***************************************************************************)
(* Replicated causal key-value store "okayv": the replica engine of        *)
(* server/server.go (first definition of Server, lines 1-452), the vector  *)
(* clock algebra of server/clock.go (the variant with in-place TakeMax,    *)
(* Clone and AheadOneN), the client session of client/client.go, the       *)
(* network topology of tsgen/tsgen.go, and the fuzz harness with its       *)
(* validator (harness/fuzz_test.go, tsgen/causal.go lines 254-527).        *)
(***************************************************************************)
EXTENDS Integers, Sequences, FiniteSets, TLC

\* ------------------------------------------------------------------------
\* Bounds of the model
\* ------------------------------------------------------------------------
Nodes == {"a", "b", "c"}
Clients == {"alice", "bob"}
Keys == {"x", "y"}
Values == {"1", "2"}
\* number of events that uuid.New mints in one run
MaxEvents == 2
\* largest wall-clock instant time.Now returns in one run
MaxTime == 2

\* ------------------------------------------------------------------------
\* Vector clock algebra; a missing map entry reads as zero
\* ------------------------------------------------------------------------
EmptyClock == [n \in Nodes |-> 0]

Mark(cc, node) == [cc EXCEPT ![node] = cc[node] + 1]

AtMost(left, right) == \A srv \in Nodes : ~(right[srv] < left[srv])

TakeMax(a, b) == [node \in Nodes |-> IF b[node] > a[node] THEN b[node] ELSE a[node]]

Behind(us, them) == \E key \in Nodes : us[key] < them[key]

Before(us, them) ==
    /\ \A key \in Nodes : us[key] <= them[key]
    /\ \E key \in Nodes : us[key] < them[key]

After(us, them) ==
    /\ \A key \in Nodes : us[key] >= them[key]
    /\ \E key \in Nodes : us[key] > them[key]

Concurrent(us, them) == ~Before(us, them) /\ ~After(us, them)

AheadOneN(us, them, n) ==
    /\ \A key \in Nodes : them[key] - us[key] \in {0, 1}
    /\ Cardinality({key \in Nodes : them[key] - us[key] = 1}) = n

\* ------------------------------------------------------------------------
\* Columns and causal clocks
\* ------------------------------------------------------------------------
Column(key, value, id, context, replicated, timestamp) ==
    [key |-> key, value |-> value, id |-> id, context |-> context,
     replicated |-> replicated, timestamp |-> timestamp]

\* CausalClock.Equal compares cc.Replicated with itself
ClockEqual(cc, other) ==
    /\ cc.id = other.id
    /\ cc.context = other.context
    /\ cc.replicated = cc.replicated

\* ------------------------------------------------------------------------
\* State
\* ------------------------------------------------------------------------
VARIABLES
    maxcc,       \* Server.maxcc of every replica
    events,      \* Server.events
    latest,      \* Server.latest: key -> index into events
    byid,        \* Server.byid: event id -> index into events
    acked,       \* Server.acked: peer -> cursor (number of acked columns)
    peers,       \* Server.peers
    ModelNodes,  \* Model.Nodes: the replicas registered in the topology
    Partitions,  \* Model.Partitions of the network topology
    context,     \* Client.context of every client session
    reply,       \* the response in flight to the client that sent a request
    now,         \* the wall clock
    budget,      \* the number of events uuid.New still mints in this run
    minted,      \* history: the writes that minted an event, by event id
    seen,        \* history: the events every client has witnessed
    validation,  \* ValidateCausality over the Record of the harness so far
    lock,        \* Server.lock of every replica is held
    call,        \* the gossip request that a replica has in flight
    sent,        \* the gossip requests that the network may deliver again
    viewed,      \* the last view-change request and how it ended
    fed,         \* the action that ValidateCausality was last handed
    compared     \* the last call of a comparison of VectorClock and its result

vars == <<maxcc, events, latest, byid, acked, peers, ModelNodes, Partitions,
          context, reply, now, budget, minted, seen, validation, lock, call, sent, viewed, fed, compared>>

SeqElems(q) == {q[i] : i \in 1..Len(q)}

\* The fields of one replica that the handlers work on.
Replica(n) ==
    [maxcc |-> maxcc[n], events |-> events[n], latest |-> latest[n],
     byid |-> byid[n], acked |-> acked[n]]

NoReply == [op |-> "none"]

\* no view-change request was made
NoView == [node |-> "none"]

\* no gossip request of the replica is in flight
Idle == [phase |-> "idle"]

\* ValidateCausality was handed no action yet
NoAction == [op |-> "none"]

\* no comparison of vector clocks was called yet
NoCall == [method |-> "none"]

\* ------------------------------------------------------------------------
\* Store: lookups and the per-peer cursor
\* ------------------------------------------------------------------------
\* Server.lookup: the key has a latest column
HasKey(s, key) == key \in DOMAIN s.latest
lookup(s, key) == s.events[s.latest[key]]

\* HasID that finds no event recorded
HasIDNever(s, id) == FALSE

\* Server.lookupID
HasID(s, id) == id \in DOMAIN s.byid
lookupID(s, id) == s.events[s.byid[id]]

\* MapSet that writes the index before the one it is given
MapSetBefore(m, k, v) == [x \in DOMAIN m \cup {k} |-> IF x = k THEN v - 1 ELSE m[x]]

\* m[k] = v of a Go map
MapSet(m, k, v) == [x \in DOMAIN m \cup {k} |-> IF x = k THEN v ELSE m[x]]

\* scanAcked that steps over one column whether the remote holds it or not
scanAckedSkip(evs, remote, i) == IF i < Len(evs) THEN i + 1 ELSE i

\* Server.indexNotAcked: advance the cursor over the columns the remote holds
RECURSIVE scanAcked(_, _, _)
scanAcked(evs, remote, i) ==
    IF i < Len(evs) /\ remote \in evs[i + 1].replicated
    THEN scanAcked(evs, remote, i + 1)
    ELSE i

\* indexNotAcked that moves the cursor to the end of the log
indexNotAckedEnd(s, remote) == Len(s.events)

indexNotAcked(s, remote) == scanAcked(s.events, remote, s.acked[remote])

\* s.events[startIdx:]
EventsFrom(evs, startIdx) == SubSeq(evs, startIdx + 1, Len(evs))

\* ------------------------------------------------------------------------
\* Server.playLog
\* ------------------------------------------------------------------------
\* CausalClock.Merge on the stored column
MergeClock(existing, col) ==
    [existing EXCEPT !.context = TakeMax(existing.context, col.context),
                     !.replicated = existing.replicated \cup col.replicated]

\* PlayKnown without the raise of maxcc
PlayKnownNoRaise(s, col) ==
    LET idx == s.byid[col.id]
        merged == MergeClock(lookupID(s, col.id), col)
    IN  IF ~ClockEqual(lookupID(s, col.id), col)
        THEN [s |-> [s EXCEPT !.events[idx] = merged],
              upd |-> <<idx>>, stop |-> FALSE]
        ELSE [s |-> s, upd |-> <<>>, stop |-> FALSE]

\* the column is already recorded: only update the replication data
PlayKnown(s, col) ==
    LET idx == s.byid[col.id]
        existing == lookupID(s, col.id)
        merged == MergeClock(existing, col)
    IN  IF ~ClockEqual(existing, col)
        THEN [s |-> [s EXCEPT !.events[idx] = merged,
                              !.maxcc = TakeMax(s.maxcc, merged.context)],
              upd |-> <<idx>>, stop |-> FALSE]
        ELSE [s |-> s, upd |-> <<>>, stop |-> FALSE]

\* LocalWins where the local copy never wins
LocalWinsNever(s, col) == FALSE

\* the timestamp tie-break of concurrent writes: the local copy wins
LocalWins(s, col) ==
    /\ HasKey(s, col.key)
    /\ lookup(s, col.key).timestamp > col.timestamp

\* Accept without the mark of this replica in the replicated set
AcceptUnmarked(name, s, col) ==
    LET cc == Mark(TakeMax(s.maxcc, col.context), name)
        newcol == [col EXCEPT !.context = cc]
        evs == Append(s.events, newcol)
    IN  [s EXCEPT !.maxcc = cc,
                  !.events = evs,
                  !.latest = MapSet(s.latest, col.key, Len(evs)),
                  !.byid = MapSet(s.byid, col.id, Len(evs))]

\* Accept that raises maxcc by the incoming context without the mark
AcceptNoIncrement(name, s, col) ==
    LET cc == TakeMax(s.maxcc, col.context)
        newcol == [col EXCEPT !.context = cc,
                              !.replicated = col.replicated \cup {name}]
        evs == Append(s.events, newcol)
    IN  [s EXCEPT !.maxcc = cc,
                  !.events = evs,
                  !.latest = MapSet(s.latest, col.key, Len(evs)),
                  !.byid = MapSet(s.byid, col.id, Len(evs))]

\* append the column to history, marking it as an event of this replica
Accept(name, s, col) ==
    LET cc == Mark(TakeMax(s.maxcc, col.context), name)
        newcol == [col EXCEPT !.context = cc,
                              !.replicated = col.replicated \cup {name}]
        evs == Append(s.events, newcol)
    IN  [s EXCEPT !.maxcc = cc,
                  !.events = evs,
                  !.latest = MapSet(s.latest, col.key, Len(evs)),
                  !.byid = MapSet(s.byid, col.id, Len(evs))]

\* PlayCol that steps over a column it cannot take and goes on
PlayColSkip(name, s, col) ==
    LET concurrent == Concurrent(s.maxcc, col.context)
        happensafter == AheadOneN(s.maxcc, col.context, Cardinality(col.replicated))
    IN  IF HasID(s, col.id) THEN PlayKnown(s, col)
        ELSE IF ~(concurrent \/ happensafter)
        THEN [s |-> s, upd |-> <<>>, stop |-> FALSE]
        ELSE IF concurrent /\ LocalWins(s, col)
        THEN [s |-> [s EXCEPT !.maxcc = TakeMax(s.maxcc, col.context)],
              upd |-> <<>>, stop |-> FALSE]
        ELSE LET t == Accept(name, s, col)
             IN  [s |-> t, upd |-> <<Len(t.events)>>, stop |-> FALSE]

\* PlayCol that stops at a column it drops
PlayColDropStops(name, s, col) ==
    LET concurrent == Concurrent(s.maxcc, col.context)
        happensafter == AheadOneN(s.maxcc, col.context, Cardinality(col.replicated))
    IN  IF HasID(s, col.id) THEN PlayKnown(s, col)
        ELSE IF ~(concurrent \/ happensafter)
        THEN [s |-> s, upd |-> <<>>, stop |-> TRUE]
        ELSE IF concurrent /\ LocalWins(s, col)
        THEN [s |-> s, upd |-> <<>>, stop |-> TRUE]
        ELSE LET t == Accept(name, s, col)
             IN  [s |-> t, upd |-> <<Len(t.events)>>, stop |-> FALSE]

\* PlayCol that counts a column it drops as an event of its own
PlayColDropCounts(name, s, col) ==
    LET concurrent == Concurrent(s.maxcc, col.context)
        happensafter == AheadOneN(s.maxcc, col.context, Cardinality(col.replicated))
    IN  IF HasID(s, col.id) THEN PlayKnown(s, col)
        ELSE IF ~(concurrent \/ happensafter)
        THEN [s |-> s, upd |-> <<>>, stop |-> TRUE]
        ELSE IF concurrent /\ LocalWins(s, col)
        THEN [s |-> [s EXCEPT !.maxcc = Mark(TakeMax(s.maxcc, col.context), name)],
              upd |-> <<>>, stop |-> FALSE]
        ELSE LET t == Accept(name, s, col)
             IN  [s |-> t, upd |-> <<Len(t.events)>>, stop |-> FALSE]

\* one iteration of the loop of playLog
PlayCol(name, s, col) ==
    LET concurrent == Concurrent(s.maxcc, col.context)
        happensafter == AheadOneN(s.maxcc, col.context, Cardinality(col.replicated))
    IN  IF HasID(s, col.id) THEN PlayKnown(s, col)
        ELSE IF ~(concurrent \/ happensafter)
        THEN [s |-> s, upd |-> <<>>, stop |-> TRUE]
        ELSE IF concurrent /\ LocalWins(s, col)
        THEN [s |-> [s EXCEPT !.maxcc = TakeMax(s.maxcc, col.context)],
              upd |-> <<>>, stop |-> FALSE]
        ELSE LET t == Accept(name, s, col)
             IN  [s |-> t, upd |-> <<Len(t.events)>>, stop |-> FALSE]

\* playLog: the replica after the log is played, and the indices of the
\* updated columns (the returned columns share their clocks with the log)
RECURSIVE playFrom(_, _, _, _, _)
playFrom(name, s, log, i, updated) ==
    IF i > Len(log) THEN [s |-> s, updated |-> updated]
    ELSE LET r == PlayCol(name, s, log[i])
         IN  IF r.stop THEN [s |-> s, updated |-> updated]
             ELSE playFrom(name, r.s, log, i + 1, updated \o r.upd)

playLog(name, s, log) == playFrom(name, s, log, 1, <<>>)

\* the columns playLog returns, as they are encoded on the wire
UpdatedCols(r) == [j \in 1..Len(r.updated) |-> r.s.events[r.updated[j]]]

\* ------------------------------------------------------------------------
\* Network topology (tsgen.Model)
\* ------------------------------------------------------------------------
\* the nodes the search of Model.Reachable queues, starting from queued
RECURSIVE reachFrom(_, _)
reachFrom(nodes, queued) ==
    LET more == {n \in nodes : \E cur \in queued : <<cur, n>> \notin Partitions}
    IN  IF more \subseteq queued THEN queued ELSE reachFrom(nodes, queued \cup more)

\* Model.Reachable in a topology of the given nodes
ReachableIn(nodes, a, b) == b \in reachFrom(nodes, {a})

Reachable(a, b) == ReachableIn(ModelNodes, a, b)

\* the replica fields of n become those of the record s
Store(n, s) ==
    /\ maxcc' = [maxcc EXCEPT ![n] = s.maxcc]
    /\ events' = [events EXCEPT ![n] = s.events]
    /\ latest' = [latest EXCEPT ![n] = s.latest]
    /\ byid' = [byid EXCEPT ![n] = s.byid]
    /\ acked' = [acked EXCEPT ![n] = s.acked]

\* the replica fields of n and of d become those of the records
Store2(n, s, d, t) ==
    /\ maxcc' = [maxcc EXCEPT ![n] = s.maxcc, ![d] = t.maxcc]
    /\ events' = [events EXCEPT ![n] = s.events, ![d] = t.events]
    /\ latest' = [latest EXCEPT ![n] = s.latest, ![d] = t.latest]
    /\ byid' = [byid EXCEPT ![n] = s.byid, ![d] = t.byid]
    /\ acked' = [acked EXCEPT ![n] = s.acked, ![d] = t.acked]

\* no request of a client is being served: the callers are synchronous
Quiet == reply = NoReply

\* ------------------------------------------------------------------------
\* Client requests: Client.Read -> Server.read, Client.Write -> Server.update
\* ------------------------------------------------------------------------
\* readResult answering the context of the column alone
readResultColumnContext(s, key, ctx) ==
    IF Behind(s.maxcc, ctx)
    THEN [status |-> 503, value |-> "", ctx |-> EmptyClock, id |-> 0]
    ELSE IF ~HasKey(s, key)
    THEN [status |-> 404, value |-> "", ctx |-> ctx, id |-> 0]
    ELSE [status |-> 200, value |-> lookup(s, key).value,
          ctx |-> lookup(s, key).context, id |-> lookup(s, key).id]

\* the body of Server.read: status, value and context of the answer
readResult(s, key, ctx) ==
    IF Behind(s.maxcc, ctx)
    THEN [status |-> 503, value |-> "", ctx |-> EmptyClock, id |-> 0]
    ELSE IF ~HasKey(s, key)
    THEN [status |-> 404, value |-> "", ctx |-> ctx, id |-> 0]
    ELSE LET col == lookup(s, key)
         IN  [status |-> 200, value |-> col.value,
              ctx |-> TakeMax(col.context, ctx), id |-> col.id]

\* the request of Client.Read is served by replica n
Read(c, n, k) ==
    /\ Quiet
    /\ n \in ModelNodes
    /\ ~lock[n]
    /\ LET res == readResult(Replica(n), k, context[c])
       IN  reply' = [op |-> "read", client |-> c, node |-> n, key |-> k,
                     value |-> res.value, status |-> res.status,
                     ctx |-> res.ctx, id |-> res.id]
    /\ UNCHANGED <<maxcc, events, latest, byid, acked, peers, ModelNodes, Partitions,
                   context, now, budget, minted, seen, validation, lock, call, sent, viewed, fed, compared>>

\* updateUnavailable refusing only a context wholly ahead of maxcc
updateUnavailableBefore(s, ctx) == Before(s.maxcc, ctx)

\* Server.update refuses the request
updateUnavailable(s, ctx) == Behind(s.maxcc, ctx)

\* updateExists that never finds the write in the store
updateExistsNever(s, key, value) == FALSE

\* Server.update acks a write of what the replica already has
updateExists(s, key, value) ==
    /\ HasKey(s, key)
    /\ key = lookup(s, key).key
    /\ value = lookup(s, key).value

\* updateExistsContext answering the context of the stored column alone
updateExistsContextStored(s, key, ctx) == lookup(s, key).context

\* the context of the ack of a write that is already stored: the context of
\* the client raised by the context of the stored column
updateExistsContext(s, key, ctx) == TakeMax(ctx, lookup(s, key).context)

\* updateMint that leaves latest as it was
updateMintNoLatest(name, s, key, value, ctx, id, ts) ==
    LET cc == Mark(TakeMax(s.maxcc, ctx), name)
        evs == Append(s.events, Column(key, value, id, cc, {name}, ts))
    IN  [s EXCEPT !.maxcc = cc,
                  !.events = evs,
                  !.byid = MapSet(s.byid, id, Len(evs))]

\* updateMint marking the context of the client alone
updateMintClientClock(name, s, key, value, ctx, id, ts) ==
    LET cc == Mark(ctx, name)
        evs == Append(s.events, Column(key, value, id, cc, {name}, ts))
    IN  [s EXCEPT !.maxcc = cc,
                  !.events = evs,
                  !.latest = MapSet(s.latest, key, Len(evs)),
                  !.byid = MapSet(s.byid, id, Len(evs))]

\* updateMint writing over the column the key has
updateMintInPlace(name, s, key, value, ctx, id, ts) ==
    LET cc == Mark(TakeMax(s.maxcc, ctx), name)
        col == Column(key, value, id, cc, {name}, ts)
        evs == IF HasKey(s, key) THEN [s.events EXCEPT ![s.latest[key]] = col]
               ELSE Append(s.events, col)
    IN  [s EXCEPT !.maxcc = cc,
                  !.events = evs,
                  !.latest = MapSet(s.latest, key,
                                    IF HasKey(s, key) THEN s.latest[key] ELSE Len(evs)),
                  !.byid = MapSet(s.byid, id,
                                  IF HasKey(s, key) THEN s.latest[key] ELSE Len(evs))]

\* Server.update mints a new event
updateMint(name, s, key, value, ctx, id, ts) ==
    LET cc == Mark(TakeMax(s.maxcc, ctx), name)
        evs == Append(s.events, Column(key, value, id, cc, {name}, ts))
    IN  [s EXCEPT !.maxcc = cc,
                  !.events = evs,
                  !.latest = MapSet(s.latest, key, Len(evs)),
                  !.byid = MapSet(s.byid, id, Len(evs))]

\* the events that causally precede what the client has witnessed, and those
Past(c) == seen[c] \cup UNION {minted[e].deps : e \in seen[c]}

\* the request of Client.Write is served by replica n
Write(c, n, k, v) ==
    /\ Quiet
    /\ n \in ModelNodes
    /\ ~lock[n]
    /\ LET s == Replica(n)
           ctx == context[c]
           id == Len(minted) + 1
       IN  IF updateUnavailable(s, ctx)
           THEN /\ reply' = [op |-> "write", client |-> c, node |-> n, key |-> k,
                             value |-> v, status |-> 503, ctx |-> EmptyClock,
                             id |-> 0]
                /\ UNCHANGED <<maxcc, events, latest, byid, acked, now, budget,
                               minted>>
           ELSE IF updateExists(s, k, v)
           THEN /\ reply' = [op |-> "write", client |-> c, node |-> n, key |-> k,
                             value |-> v, status |-> 200,
                             ctx |-> updateExistsContext(s, k, ctx),
                             id |-> lookup(s, k).id]
                /\ UNCHANGED <<maxcc, events, latest, byid, acked, now, budget,
                               minted>>
           ELSE /\ budget > 0
                /\ \E ts \in {now, now + 1} :
                    /\ ts <= MaxTime
                    /\ LET t == updateMint(n, s, k, v, ctx, id, ts)
                       IN  /\ Store(n, t)
                           /\ reply' = [op |-> "write", client |-> c, node |-> n,
                                        key |-> k, value |-> v, status |-> 200,
                                        ctx |-> t.maxcc, id |-> id]
                           /\ minted' = Append(minted,
                                  [client |-> c, node |-> n, key |-> k,
                                   value |-> v, ctx |-> t.maxcc,
                                   deps |-> Past(c)])
                    /\ now' = ts
                    /\ budget' = budget - 1
    /\ UNCHANGED <<peers, ModelNodes, Partitions, context, seen, validation, lock, call, sent, viewed, fed, compared>>

\* clientAfterRead that takes the context of every answer
clientAfterReadAlways(old, status, ctx) == ctx

\* Client.Read keeps the causal-context of the answer when it carries one:
\* an answer with an error carries none (the embedded field of withError is
\* not encoded), and an empty one is omitted
clientAfterRead(old, status, ctx) ==
    IF status = 200 /\ ctx # EmptyClock THEN ctx ELSE old

\* Client.Write returns before decoding an answer Unavailable, and else keeps
\* the causal-context of the answer
clientAfterWrite(old, status, ctx) == IF status = 200 THEN ctx ELSE old

\* the client gets the answer to its request
Deliver(c) ==
    /\ ~Quiet
    /\ reply.client = c
    /\ context' = [context EXCEPT ![c] =
           IF reply.op = "read"
           THEN clientAfterRead(context[c], reply.status, reply.ctx)
           ELSE clientAfterWrite(context[c], reply.status, reply.ctx)]
    /\ seen' = [seen EXCEPT ![c] =
           IF reply.status = 200 THEN seen[c] \cup {reply.id} ELSE seen[c]]
    /\ reply' = NoReply
    /\ UNCHANGED <<maxcc, events, latest, byid, acked, peers, ModelNodes, Partitions, now,
                   budget, minted, lock, call, sent, viewed, fed, compared>>

\* number of nodes of the history after which the trace has no more writes
MaxNodes == 4

\* ------------------------------------------------------------------------
\* The validator of the harness (tsgen.ValidateCausality), run action by
\* action over MyImpl.Record.  A treenode is a record; a pointer to it is
\* its index in tree; the after-list of a node is read off the before-lists,
\* in the order in which the nodes were made.
\* ------------------------------------------------------------------------
NewValidation ==
    [tree |-> <<>>, roots |-> {}, cursors |-> [c \in Clients |-> <<>>],
     err |-> FALSE]

happenedbefore(tree, t) == tree[t].before

happenedafter(tree, t) ==
    SelectSeq([j \in 1..Len(tree) |-> j],
              LAMBDA j : \E p \in 1..Len(tree[j].before) : tree[j].before[p] = t)

nextOf(tree, t, before) ==
    IF before THEN happenedbefore(tree, t) ELSE happenedafter(tree, t)

RECURSIVE searchLoop(_, _, _, _, _, _, _)
searchLoop(tree, key, before, queue, queued, matches, firstmatchdepth) ==
    IF queue = <<>> THEN matches
    ELSE LET cur == Head(queue)[1]
             depth == Head(queue)[2]
             rest == Tail(queue)
         IN  IF before /\ Len(matches) > 0 /\ depth > firstmatchdepth
             THEN searchLoop(tree, key, before, rest, queued, matches,
                             firstmatchdepth)
             ELSE LET hit == tree[cur].key = key \/ tree[cur].root
                      matches2 == IF hit THEN Append(matches, cur) ELSE matches
                      first2 == IF hit /\ Len(matches) = 0 THEN depth
                                ELSE firstmatchdepth
                      toq == SelectSeq(nextOf(tree, cur, before),
                                       LAMBDA t : t \notin queued)
                  IN  IF hit /\ before
                      THEN searchLoop(tree, key, before, rest, queued,
                                      matches2, first2)
                      ELSE searchLoop(tree, key, before,
                               rest \o [i \in 1..Len(toq) |-> <<toq[i], depth + 1>>],
                               queued \cup SeqElems(toq), matches2, first2)

\* searchLoop that traverses backwards past the nodes that match
RECURSIVE searchLoopPast(_, _, _, _, _, _, _)
searchLoopPast(tree, key, before, queue, queued, matches, firstmatchdepth) ==
    IF queue = <<>> THEN matches
    ELSE LET cur == Head(queue)[1]
             depth == Head(queue)[2]
             rest == Tail(queue)
             hit == tree[cur].key = key \/ tree[cur].root
             matches2 == IF hit THEN Append(matches, cur) ELSE matches
             toq == SelectSeq(nextOf(tree, cur, before),
                              LAMBDA t : t \notin queued)
         IN  searchLoopPast(tree, key, before,
                 rest \o [i \in 1..Len(toq) |-> <<toq[i], depth + 1>>],
                 queued \cup SeqElems(toq), matches2, firstmatchdepth)

\* searchhistory that returns the matches at any distance in both directions
searchhistoryPast(tree, key, root, before) ==
    searchLoopPast(tree, key, before, <<<<root, 0>>>>, {root}, <<>>, -1)

\* the nodes reachable from root that write key (or are a root), nearest first
searchhistory(tree, key, root, before) ==
    searchLoop(tree, key, before, <<<<root, 0>>>>, {root}, <<>>, -1)

RECURSIVE reachLoop(_, _, _, _)
reachLoop(tree, before, queue, queued) ==
    IF queue = <<>> THEN queued
    ELSE LET toq == SelectSeq(nextOf(tree, Head(queue), before),
                              LAMBDA t : t \notin queued)
         IN  reachLoop(tree, before, Tail(queue) \o toq, queued \cup SeqElems(toq))

relateddir(tree, a, b, before) == b \in reachLoop(tree, before, <<a>>, {a})

related(tree, a, b) ==
    relateddir(tree, a, b, FALSE) \/ relateddir(tree, a, b, TRUE)

\* the first node after root, breadth first, that writes k = v and is related
\* to none of unrelated; 0 when there is none
RECURSIVE unrelatedLoop(_, _, _, _, _, _)
unrelatedLoop(tree, k, v, unrelated, queue, queued) ==
    IF queue = <<>> THEN 0
    ELSE LET cur == Head(queue)
             toq == SelectSeq(happenedafter(tree, cur), LAMBDA t : t \notin queued)
         IN  IF /\ tree[cur].key = k
                /\ tree[cur].value = v
                /\ \A i \in 1..Len(unrelated) : ~related(tree, cur, unrelated[i])
             THEN cur
             ELSE unrelatedLoop(tree, k, v, unrelated, Tail(queue) \o toq,
                                queued \cup SeqElems(toq))

\* searchunrelated that takes the first node writing k = v, related or not
searchunrelatedAny(tree, k, v, root, unrelated) ==
    unrelatedLoop(tree, k, v, <<>>, <<root>>, {root})

searchunrelated(tree, k, v, root, unrelated) ==
    unrelatedLoop(tree, k, v, unrelated, <<root>>, {root})

\* case Write of ValidateCausality: a new node after the cursors of the
\* client, or after a new root when the client has none
validateWrite(v, client, key, value) ==
    LET curs == v.cursors[client]
        root == [root |-> TRUE, key |-> "", value |-> "", before |-> <<>>]
        n == [root |-> FALSE, key |-> key, value |-> value,
              before |-> IF Len(curs) = 0 THEN <<Len(v.tree) + 1>> ELSE curs]
    IN  IF Len(curs) = 0
        THEN [v EXCEPT !.tree = v.tree \o <<root, n>>,
                       !.roots = v.roots \cup {Len(v.tree) + 1},
                       !.cursors[client] = <<Len(v.tree) + 2>>]
        ELSE [v EXCEPT !.tree = Append(v.tree, n),
                       !.cursors[client] = <<Len(v.tree) + 1>>]

\* a candidate is a valid answer
validAnswer(tree, c, value, notfound) ==
    tree[c].value = value \/ (tree[c].root /\ notfound)

\* the loop over the cursors of the client: done with the cursor to add (0
\* for none), or not done with the number of candidates considered
RECURSIVE cursorLoop(_, _, _, _, _, _, _)
cursorLoop(tree, curs, i, key, value, notfound, considered) ==
    IF i > Len(curs) THEN [done |-> FALSE, add |-> 0, considered |-> considered]
    ELSE LET past == searchhistory(tree, key, curs[i], TRUE)
             future == searchhistory(tree, key, curs[i], FALSE)
             valid == SelectSeq(future,
                          LAMBDA c : validAnswer(tree, c, value, notfound))
         IN  IF \E p \in 1..Len(past) : validAnswer(tree, past[p], value, notfound)
             THEN [done |-> TRUE, add |-> 0, considered |-> considered]
             ELSE IF Len(valid) > 0
             THEN [done |-> TRUE, add |-> Head(valid), considered |-> considered]
             ELSE cursorLoop(tree, curs, i + 1, key, value, notfound,
                             considered + Len(past) + Len(future))

\* drop the cursors that happened before the last one
pruneCursors(tree, curs) ==
    IF Len(curs) = 0 THEN curs
    ELSE LET lastCursor == curs[Len(curs)]
         IN  SelectSeq(SubSeq(curs, 1, Len(curs) - 1),
                 LAMBDA c : ~relateddir(tree, lastCursor, c, TRUE))
             \o <<lastCursor>>

\* case ReadResult of ValidateCausality: the validations it can end in.  The
\* roots are a Go map, ranged over in any order, so any root under which a
\* node unrelated to the cursors is found may be the one that is taken.
validateRead(v, client, key, value, notfound) ==
    LET curs == v.cursors[client]
        r == cursorLoop(v.tree, curs, 1, key, value, notfound, 0)
        independent == {searchunrelated(v.tree, key, value, root, curs) :
                            root \in v.roots} \ {0}
        after == IF r.done
                 THEN {IF r.add = 0 THEN curs ELSE Append(curs, r.add)}
                 ELSE IF notfound /\ r.considered = 0 THEN {curs}
                 ELSE {Append(curs, n) : n \in independent}
    IN  IF after = {} THEN {[v EXCEPT !.err = TRUE]}
        ELSE {[v EXCEPT !.cursors[client] = pruneCursors(v.tree, c)] : c \in after}

\* ValidateCausality that validates a read result with Error like any other
ValidateCausalityNoSkip(v, a) ==
    IF v.err THEN {v}
    ELSE IF a.op = "write"
    THEN IF a.value = "error" THEN {v}
         ELSE {validateWrite(v, a.client, a.key, a.value)}
    ELSE validateRead(v, a.client, a.key, a.value, a.status = 404)

\* ValidateCausality after one more action of the record: a Write (skipped
\* when its value is "error"), or a ReadResult (skipped when it is an
\* Error).  The validator returns at its first error.
ValidateCausality(v, a) ==
    IF v.err THEN {v}
    ELSE IF a.op = "write"
    THEN IF a.value = "error" THEN {v}
         ELSE {validateWrite(v, a.client, a.key, a.value)}
    ELSE IF a.status = 503 THEN {v}
    ELSE validateRead(v, a.client, a.key,
                      IF a.status = 404 THEN "" ELSE a.value, a.status = 404)

\* the actions of a trace (tsgen.Write, tsgen.ReadResult): a write of a value
\* or of "error", a read that found a value, a read with NotFound and a read
\* with Error; a read that failed in another way is recorded with the empty
\* value and neither flag (MyImpl.Read)
WriteActions ==
    [op : {"write"}, client : Clients, key : Keys,
     value : Values \cup {"error"}, status : {200}]
ReadActions ==
    [op : {"read"}, client : Clients, key : Keys, value : Values \cup {""},
     status : {200}]
        \cup [op : {"read"}, client : Clients, key : Keys, value : {""},
              status : {404, 503}]

\* ValidateCausality takes the next action of the slice it was called with
Validate(a) ==
    /\ ~validation.err
    /\ (a.op = "write" /\ a.value # "error") => Len(validation.tree) < MaxNodes
    /\ validation' \in ValidateCausality(validation, a)
    /\ fed' = a
    /\ UNCHANGED <<maxcc, events, latest, byid, acked, peers, ModelNodes,
                   Partitions, context, reply, now, budget, minted, seen,
                   lock, call, sent, viewed, compared>>

\* the client gets the answer to its request; the record is not validated
Receive(c) == Deliver(c) /\ UNCHANGED validation

\* MyImpl.Read, MyImpl.Write: the client gets the answer to its request and
\* the harness appends it to the Record (a write only when it succeeded)
Record(c) ==
    /\ Deliver(c)
    /\ IF reply.op = "write" /\ reply.status # 200 THEN UNCHANGED validation
       ELSE validation' \in ValidateCausality(validation, reply)

\* ------------------------------------------------------------------------
\* Gossip: Server.Gossip -> Server.gossipOnce -> Server.recvGossip
\* ------------------------------------------------------------------------
\* the body of recvGossip: the replica afterwards and the columns it answers
recvGossip(name, s, host, cols) ==
    LET r == playLog(name, s, cols)
        startIdx == indexNotAcked(r.s, host)
        replicate == EventsFrom(r.s.events, startIdx)
    IN  [s |-> [r.s EXCEPT !.acked[host] = startIdx],
         cols |-> replicate \o UpdatedCols(r)]

\* gossipOnce of replica name (state s) with the peer dst (state t): both
\* replicas afterwards.  The requests are synchronous calls made under the
\* lock of name; a request to a peer that is not reachable fails and ends
\* the exchange.
gossipOnce(name, s, dst, t, reachable) ==
    LET startIdx == indexNotAcked(s, dst)
        s1 == [s EXCEPT !.acked[dst] = startIdx]
        replicate == EventsFrom(s.events, startIdx)
    IN  IF Len(replicate) = 0 \/ ~reachable THEN [src |-> s1, dst |-> t]
        ELSE LET push == recvGossip(dst, t, name, replicate)
                 back == playLog(name, s1, push.cols)
                 acks == UpdatedCols(back)
             IN  IF Len(acks) = 0 THEN [src |-> back.s, dst |-> push.s]
                 ELSE [src |-> back.s,
                       dst |-> recvGossip(dst, push.s, name, acks).s]

GossipOnce(n, d) ==
    /\ Quiet
    /\ n \in ModelNodes
    /\ d \in SeqElems(peers[n])
    /\ LET r == gossipOnce(n, Replica(n), d, Replica(d), Reachable(n, d))
       IN  Store2(n, r.src, d, r.dst)
    /\ UNCHANGED <<peers, ModelNodes, Partitions, context, reply, now, budget, minted, seen, validation, lock, call, sent, viewed, fed, compared>>

\* ------------------------------------------------------------------------
\* Gossip, request by request: gossipOnce takes Server.lock and keeps it
\* (defer s.lock.Unlock()) until it returns; each of its two requests is
\* served by recvGossip of the peer, under the lock of the peer.  A request
\* or its answer may be lost (JSONRequest returns an error), and the network
\* may deliver a request again, or late.
\* ------------------------------------------------------------------------
\* number of gossip requests that the network keeps for a later delivery
MaxSent == 1

Keep(msg) == IF Cardinality(sent) < MaxSent THEN sent \cup {msg} ELSE sent

\* gossipOnce up to its first request
GossipBegin(n, d) ==
    /\ Quiet
    /\ n \in ModelNodes
    /\ d \in SeqElems(peers[n])
    /\ ~lock[n]
    /\ LET s == Replica(n)
           startIdx == indexNotAcked(s, d)
           replicate == EventsFrom(s.events, startIdx)
       IN  /\ acked' = [acked EXCEPT ![n][d] = startIdx]
           /\ IF Len(replicate) = 0
              THEN UNCHANGED <<lock, call, sent>>
              ELSE /\ lock' = [lock EXCEPT ![n] = TRUE]
                   /\ call' = [call EXCEPT ![n] =
                          [phase |-> "push", dst |-> d, cols |-> replicate]]
                   /\ sent' = Keep([dst |-> d, host |-> n, cols |-> replicate])
    /\ UNCHANGED <<maxcc, events, latest, byid, peers, ModelNodes, Partitions,
                   context, reply, now, budget, minted, seen, validation, viewed, fed, compared>>

\* the request in flight of n is served by its peer, and n goes on with the
\* answer: after the push it plays the answer and acks what it updated;
\* after the ack it drops the answer
GossipAnswer(n) ==
    /\ Quiet
    /\ call[n] # Idle
    /\ Reachable(n, call[n].dst)
    /\ ~lock[call[n].dst]
    /\ LET d == call[n].dst
           served == recvGossip(d, Replica(d), n, call[n].cols)
           back == playLog(n, Replica(n), served.cols)
           acks == UpdatedCols(back)
       IN  IF call[n].phase = "push"
           THEN /\ Store2(n, back.s, d, served.s)
                /\ IF Len(acks) = 0
                   THEN /\ lock' = [lock EXCEPT ![n] = FALSE]
                        /\ call' = [call EXCEPT ![n] = Idle]
                        /\ UNCHANGED sent
                   ELSE /\ call' = [call EXCEPT ![n] =
                               [phase |-> "ack", dst |-> d, cols |-> acks]]
                        /\ sent' = Keep([dst |-> d, host |-> n, cols |-> acks])
                        /\ UNCHANGED lock
           ELSE /\ Store(d, served.s)
                /\ lock' = [lock EXCEPT ![n] = FALSE]
                /\ call' = [call EXCEPT ![n] = Idle]
                /\ UNCHANGED sent
    /\ UNCHANGED <<peers, ModelNodes, Partitions, context, reply, now, budget,
                   minted, seen, validation, viewed, fed, compared>>

\* the request in flight of n fails before it reaches the peer (the peer is
\* not reachable, or the request is lost): gossipOnce returns the error
GossipError(n) ==
    /\ Quiet
    /\ call[n] # Idle
    /\ lock' = [lock EXCEPT ![n] = FALSE]
    /\ call' = [call EXCEPT ![n] = Idle]
    /\ UNCHANGED <<maxcc, events, latest, byid, acked, peers, ModelNodes,
                   Partitions, context, reply, now, budget, minted, seen,
                   validation, sent, viewed, fed, compared>>

\* the request in flight of n is served by its peer and the answer is lost:
\* gossipOnce returns the error
GossipAnswerLost(n) ==
    /\ Quiet
    /\ call[n] # Idle
    /\ Reachable(n, call[n].dst)
    /\ ~lock[call[n].dst]
    /\ LET d == call[n].dst
       IN  Store(d, recvGossip(d, Replica(d), n, call[n].cols).s)
    /\ lock' = [lock EXCEPT ![n] = FALSE]
    /\ call' = [call EXCEPT ![n] = Idle]
    /\ UNCHANGED <<peers, ModelNodes, Partitions, context, reply, now, budget,
                   minted, seen, validation, sent, viewed, fed, compared>>

\* the network delivers a request once more, or late; nobody waits for the
\* answer
GossipAgain(msg) ==
    /\ Quiet
    /\ msg \in sent
    /\ ~lock[msg.dst]
    /\ Store(msg.dst, recvGossip(msg.dst, Replica(msg.dst), msg.host, msg.cols).s)
    /\ sent' = sent \ {msg}
    /\ UNCHANGED <<peers, ModelNodes, Partitions, context, reply, now, budget,
                   minted, seen, validation, lock, call, viewed, fed, compared>>

\* ------------------------------------------------------------------------
\* Topology changes (tsgen.Model.Partition, tsgen.Model.Connect)
\* ------------------------------------------------------------------------
Partition(a, b) ==
    /\ Quiet
    /\ a # b
    /\ Partitions' = Partitions \cup {<<a, b>>, <<b, a>>}
    /\ Partitions' # Partitions
    /\ UNCHANGED <<maxcc, events, latest, byid, acked, peers, ModelNodes,
                   context, reply, now, budget, minted, seen, validation, lock, call, sent, viewed, fed, compared>>

Connect(a, b) ==
    /\ Quiet
    /\ a # b
    /\ Partitions' = Partitions \ {<<a, b>>, <<b, a>>}
    /\ Partitions' # Partitions
    /\ UNCHANGED <<maxcc, events, latest, byid, acked, peers, ModelNodes,
                   context, reply, now, budget, minted, seen, validation, lock, call, sent, viewed, fed, compared>>

\* ------------------------------------------------------------------------
\* Membership: Server.viewChange, Server.forwardViewChange, and the
\* registration of a replica (RegisterNode.Apply, MyImpl.CreateNode)
\* ------------------------------------------------------------------------
\* the replicas of the list other than the receiver, in order
RECURSIVE others(_, _)
others(list, name) ==
    IF list = <<>> THEN <<>>
    ELSE IF Head(list) = name THEN others(Tail(list), name)
    ELSE <<Head(list)>> \o others(Tail(list), name)

\* viewLoop that replaces the list of the receiver and forwards nothing
viewLoopOwn(nodes, name, list, forward, i, ps) ==
    [ps EXCEPT ![name] = others(list, name)]

\* the loop of viewChange from position i on, in a topology of the given
\* nodes: the peer lists afterwards; a forward that fails returns before the
\* receiver's own list is replaced
RECURSIVE viewLoop(_, _, _, _, _, _)
viewLoop(nodes, name, list, forward, i, ps) ==
    IF i > Len(list) THEN [ps EXCEPT ![name] = others(list, name)]
    ELSE IF list[i] = name THEN viewLoop(nodes, name, list, forward, i + 1, ps)
    ELSE IF ~forward THEN viewLoop(nodes, name, list, forward, i + 1, ps)
    ELSE IF ~ReachableIn(nodes, name, list[i]) THEN ps
    ELSE viewLoop(nodes, name, list, forward, i + 1,
                  [ps EXCEPT ![list[i]] = others(list, list[i])])

\* the orders in which the addresses of the servers may be listed
Orders(S) == {list \in [1..Cardinality(S) -> S] :
                 \A i, j \in 1..Cardinality(S) : list[i] = list[j] => i = j}

\* RegisterNode: the replica joins the topology, its server is constructed
\* and one of the servers there already is sent the new view
RegisterNode(n) ==
    /\ Quiet
    /\ n \notin ModelNodes
    /\ ModelNodes' = ModelNodes \cup {n}
    /\ IF ModelNodes = {} THEN UNCHANGED peers
       ELSE \E name \in ModelNodes, list \in Orders(ModelNodes') :
               peers' = viewLoop(ModelNodes', name, list, TRUE, 1, peers)
    /\ UNCHANGED <<maxcc, events, latest, byid, acked, Partitions, context,
                   reply, now, budget, minted, seen, validation, lock, call, sent, viewed, fed, compared>>

\* a forward of viewChange fails: the address is not that of a server that
\* the receiver reaches (Client.Do)
forwardFails(nodes, name, list, forward) ==
    /\ forward
    /\ \E i \in 1..Len(list) :
        list[i] # name /\ ~ReachableIn(nodes, name, list[i])

\* viewChangeLog that restarts the replication towards the peers
viewChangeLogRestart(s) == [s EXCEPT !.acked = [p \in Nodes |-> 0]]

\* the log, the indices, maxcc and the cursors of the replica after
\* viewChange: the handler assigns s.peers and nothing else
viewChangeLog(s) == s

\* the handler of /view-change of replica r gets the list with the flag
\* donotforward
ViewChange(r, list, donotforward) ==
    /\ Quiet
    /\ r \in ModelNodes
    /\ peers' = viewLoop(ModelNodes, r, list, ~donotforward, 1, peers)
    /\ Store(r, viewChangeLog(Replica(r)))
    /\ viewed' = [node |-> r, replicas |-> list, donotforward |-> donotforward,
                  ok |-> ~forwardFails(ModelNodes, r, list, ~donotforward)]
    /\ UNCHANGED <<ModelNodes, Partitions,
                   context, reply, now, budget, minted, seen, validation,
                   lock, call, sent, fed, compared>>

\* ------------------------------------------------------------------------
\* The comparisons of VectorClock over the maps they are given: a clock is a
\* map from some of the nodes to counters, a missing entry reads as zero, and
\* the keys of both maps are ranged over in the order the Go map gives them
\* ------------------------------------------------------------------------
\* largest counter of a clock that is compared
MaxCount == 2

VectorClocks == UNION {[S -> 0..MaxCount] : S \in SUBSET Nodes}

\* v[key] of a Go map
At(v, key) == IF key \in DOMAIN v THEN v[key] ELSE 0

zipkeys(a, b) == DOMAIN a \cup DOMAIN b

\* the loop of Before that returns true when no entry of us is above them
RECURSIVE rangeBeforeOrEqual(_, _, _, _, _)
rangeBeforeOrEqual(us, them, keys, i, strict) ==
    IF i > Len(keys) THEN TRUE
    ELSE IF ~(At(us, keys[i]) <= At(them, keys[i])) THEN FALSE
    ELSE rangeBeforeOrEqual(us, them, keys, i + 1, strict)

\* the loop of VectorClock.Before from position i of the keys on
RECURSIVE rangeBefore(_, _, _, _, _)
rangeBefore(us, them, keys, i, strict) ==
    IF i > Len(keys) THEN strict
    ELSE IF ~(At(us, keys[i]) <= At(them, keys[i])) THEN FALSE
    ELSE rangeBefore(us, them, keys, i + 1,
                     strict \/ At(us, keys[i]) < At(them, keys[i]))

\* the loop of VectorClock.After
RECURSIVE rangeAfter(_, _, _, _, _)
rangeAfter(us, them, keys, i, strict) ==
    IF i > Len(keys) THEN strict
    ELSE IF ~(At(us, keys[i]) >= At(them, keys[i])) THEN FALSE
    ELSE rangeAfter(us, them, keys, i + 1,
                    strict \/ At(us, keys[i]) > At(them, keys[i]))

\* the loop of AheadOneN that lets an entry of them be below us
RECURSIVE rangeAheadOneNBelow(_, _, _, _, _, _)
rangeAheadOneNBelow(us, them, n, keys, i, numPlusOnes) ==
    IF i > Len(keys) THEN numPlusOnes = n
    ELSE LET diff == At(them, keys[i]) - At(us, keys[i])
         IN  IF diff = 1 /\ numPlusOnes = n THEN FALSE
             ELSE IF diff = 1
             THEN rangeAheadOneNBelow(us, them, n, keys, i + 1, numPlusOnes + 1)
             ELSE IF diff > 1 THEN FALSE
             ELSE rangeAheadOneNBelow(us, them, n, keys, i + 1, numPlusOnes)

\* the loop of VectorClock.AheadOneN
RECURSIVE rangeAheadOneN(_, _, _, _, _, _)
rangeAheadOneN(us, them, n, keys, i, numPlusOnes) ==
    IF i > Len(keys) THEN numPlusOnes = n
    ELSE LET diff == At(them, keys[i]) - At(us, keys[i])
         IN  IF diff < 0 THEN FALSE
             ELSE IF diff = 1 /\ numPlusOnes = n THEN FALSE
             ELSE IF diff = 1
             THEN rangeAheadOneN(us, them, n, keys, i + 1, numPlusOnes + 1)
             ELSE IF diff > 1 THEN FALSE
             ELSE rangeAheadOneN(us, them, n, keys, i + 1, numPlusOnes)

\* the loop of Behind that counts an equal entry as behind
RECURSIVE rangeBehindOrEqual(_, _, _, _)
rangeBehindOrEqual(us, them, keys, i) ==
    IF i > Len(keys) THEN FALSE
    ELSE IF At(us, keys[i]) <= them[keys[i]] THEN TRUE
    ELSE rangeBehindOrEqual(us, them, keys, i + 1)

\* the loop of VectorClock.Behind over the keys of them
RECURSIVE rangeBehind(_, _, _, _)
rangeBehind(us, them, keys, i) ==
    IF i > Len(keys) THEN FALSE
    ELSE IF At(us, keys[i]) < them[keys[i]] THEN TRUE
    ELSE rangeBehind(us, them, keys, i + 1)

\* the loop of VectorClock.AtMost over the keys of left
RECURSIVE rangeAtMost(_, _, _, _)
rangeAtMost(left, right, keys, i) ==
    IF i > Len(keys) THEN TRUE
    ELSE IF At(right, keys[i]) < left[keys[i]] THEN FALSE
    ELSE rangeAtMost(left, right, keys, i + 1)

\* us.Behind(them) is called and returns
CallBehind(us, them) ==
    /\ compared = NoCall
    /\ \E keys \in Orders(DOMAIN them) :
        compared' = [method |-> "Behind", us |-> us, them |-> them, n |-> 0,
                     result |-> rangeBehind(us, them, keys, 1)]
    /\ UNCHANGED <<maxcc, events, latest, byid, acked, peers, ModelNodes,
                   Partitions, context, reply, now, budget, minted, seen,
                   validation, lock, call, sent, viewed, fed>>

\* left.AtMost(right) is called and returns
CallAtMost(left, right) ==
    /\ compared = NoCall
    /\ \E keys \in Orders(DOMAIN left) :
        compared' = [method |-> "AtMost", us |-> left, them |-> right, n |-> 0,
                     result |-> rangeAtMost(left, right, keys, 1)]
    /\ UNCHANGED <<maxcc, events, latest, byid, acked, peers, ModelNodes,
                   Partitions, context, reply, now, budget, minted, seen,
                   validation, lock, call, sent, viewed, fed>>

\* us.Before(them), us.After(them), us.Concurrent(them) and
\* us.AheadOneN(them, n) are called and return; a run makes one call
CallBefore(us, them) ==
    /\ compared = NoCall
    /\ \E keys \in Orders(zipkeys(us, them)) :
        compared' = [method |-> "Before", us |-> us, them |-> them, n |-> 0,
                     result |-> rangeBefore(us, them, keys, 1, FALSE)]
    /\ UNCHANGED <<maxcc, events, latest, byid, acked, peers, ModelNodes,
                   Partitions, context, reply, now, budget, minted, seen,
                   validation, lock, call, sent, viewed, fed>>

CallAfter(us, them) ==
    /\ compared = NoCall
    /\ \E keys \in Orders(zipkeys(us, them)) :
        compared' = [method |-> "After", us |-> us, them |-> them, n |-> 0,
                     result |-> rangeAfter(us, them, keys, 1, FALSE)]
    /\ UNCHANGED <<maxcc, events, latest, byid, acked, peers, ModelNodes,
                   Partitions, context, reply, now, budget, minted, seen,
                   validation, lock, call, sent, viewed, fed>>

CallConcurrent(us, them) ==
    /\ compared = NoCall
    /\ \E keys \in Orders(zipkeys(us, them)), more \in Orders(zipkeys(us, them)) :
        compared' = [method |-> "Concurrent", us |-> us, them |-> them, n |-> 0,
                     result |-> /\ ~rangeBefore(us, them, keys, 1, FALSE)
                                /\ ~rangeAfter(us, them, more, 1, FALSE)]
    /\ UNCHANGED <<maxcc, events, latest, byid, acked, peers, ModelNodes,
                   Partitions, context, reply, now, budget, minted, seen,
                   validation, lock, call, sent, viewed, fed>>

CallAheadOneN(us, them, n) ==
    /\ compared = NoCall
    /\ \E keys \in Orders(zipkeys(us, them)) :
        compared' = [method |-> "AheadOneN", us |-> us, them |-> them, n |-> n,
                     result |-> rangeAheadOneN(us, them, n, keys, 1, 0)]
    /\ UNCHANGED <<maxcc, events, latest, byid, acked, peers, ModelNodes,
                   Partitions, context, reply, now, budget, minted, seen,
                   validation, lock, call, sent, viewed, fed>>

\* ------------------------------------------------------------------------
\* The handler of /gossip called with any shipment: recvGossip plays the
\* columns it is sent, whoever sends them
\* ------------------------------------------------------------------------
\* number of columns of a shipment
MaxShip == 2

\* the events of other replicas that a shipment may carry for the first time
ForeignEvents ==
    {[id |-> 2, key |-> "x", value |-> "2", timestamp |-> 1],
     [id |-> 3, key |-> "y", value |-> "2", timestamp |-> 2]}

\* the events that the replica has in its log
StoredEvents(s) ==
    {[id |-> s.events[i].id, key |-> s.events[i].key,
      value |-> s.events[i].value, timestamp |-> s.events[i].timestamp] :
        i \in 1..Len(s.events)}

\* the clocks of the copies that other replicas have of an event
ShipContexts ==
    {cc \in [Nodes -> 0..MaxCount] : cc["a"] <= 1 /\ cc["c"] = 0}
ShipReplicated == {{"b"}, {"a", "b"}}

\* the columns that may be sent to the replica: a copy, with any clock, of an
\* event it has or of an event of another replica
ShipColumns(s) ==
    {Column(e.key, e.value, e.id, cc, repl, e.timestamp) :
        e \in ForeignEvents \cup StoredEvents(s),
        cc \in ShipContexts, repl \in ShipReplicated}

Shipments(s) == UNION {[1..len -> ShipColumns(s)] : len \in 0..MaxShip}

\* the handler of /gossip of replica n is sent the columns by host
RecvGossip(n, host, cols) ==
    /\ Quiet
    /\ n \in ModelNodes
    /\ ~lock[n]
    /\ Store(n, recvGossip(n, Replica(n), host, cols).s)
    /\ UNCHANGED <<peers, ModelNodes, Partitions, context, reply, now, budget,
                   minted, seen, validation, lock, call, sent, viewed, fed,
                   compared>>

\* ------------------------------------------------------------------------
\* Construction (NewModel, NewServer, NewClient) and the specification of a
\* cluster of two replicas that are registered, partitioned and healed
\* ------------------------------------------------------------------------
Fresh ==
    /\ maxcc = [n \in Nodes |-> EmptyClock]
    /\ events = [n \in Nodes |-> <<>>]
    /\ latest = [n \in Nodes |-> <<>>]
    /\ byid = [n \in Nodes |-> <<>>]
    /\ acked = [n \in Nodes |-> [p \in Nodes |-> 0]]
    /\ Partitions = {}
    /\ context = [c \in Clients |-> EmptyClock]
    /\ reply = NoReply
    /\ minted = <<>>
    /\ seen = [c \in Clients |-> {}]
    /\ validation = NewValidation
    /\ lock = [n \in Nodes |-> FALSE]
    /\ call = [n \in Nodes |-> Idle]
    /\ sent = {}
    /\ viewed = NoView
    /\ fed = NoAction
    /\ compared = NoCall

Init ==
    /\ Fresh
    /\ ModelNodes = {}
    /\ peers = [n \in Nodes |-> <<>>]
    /\ now = 1
    /\ budget = MaxEvents

\* the replicas of this cluster
Pair == {"a", "b"}

Next ==
    \/ \E n \in Pair : RegisterNode(n)
    \/ \E c \in Clients, n \in Pair, k \in Keys : Read(c, n, k)
    \/ \E c \in Clients, n \in Pair, k \in Keys, v \in Values : Write(c, n, k, v)
    \/ \E c \in Clients : Receive(c)
    \/ \E n \in Pair, d \in Pair : GossipOnce(n, d)
    \/ \E a \in Pair, b \in Pair : Partition(a, b)
    \/ \E a \in Pair, b \in Pair : Connect(a, b)

Spec == Init /\ [][Next]_vars

\* ------------------------------------------------------------------------
\* The specification of a cluster of three registered replicas with no
\* partition, where two clients move between the replicas
\* ------------------------------------------------------------------------
\* number of events that uuid.New mints in one run of the cluster of three
MaxClusterEvents == 4

\* the registration order of the replicas
ClusterList == <<"a", "b", "c">>

InitCluster ==
    /\ Fresh
    /\ ModelNodes = Nodes
    /\ peers = [n \in Nodes |-> others(ClusterList, n)]
    /\ now = MaxTime
    /\ budget = MaxClusterEvents

\* the requests of the clients (alice writes x at b and reads it at c, bob
\* writes y at a), and the exchanges that the gossip timers start
ClusterWrites == {<<"alice", "b", "x">>, <<"bob", "a", "y">>}
ClusterReads == {<<"alice", "c", "x">>}
ClusterGossip == {<<"b", "a">>, <<"a", "c">>, <<"b", "c">>}

\* number of events one client writes in one run of the cluster of three
MaxClientEvents == 2

\* the events the client has written
Written(c) == {e \in 1..Len(minted) : minted[e].client = c}

NextCluster ==
    \/ \E r \in ClusterReads : Read(r[1], r[2], r[3])
    \/ \E w \in ClusterWrites, v \in Values :
           /\ Cardinality(Written(w[1])) < MaxClientEvents
           /\ Write(w[1], w[2], w[3], v)
    \/ \E c \in Clients : Receive(c)
    \/ \E p \in ClusterGossip : GossipOnce(p[1], p[2])

SpecCluster == InitCluster /\ [][NextCluster]_vars

\* ------------------------------------------------------------------------
\* The specification of the fuzz harness (FuzzOkayV) on the cluster of three:
\* the harness records every answer, and ValidateCausality reads the Record.
\* A round of Gossip calls of the harness is taken one exchange at a time:
\* an instruction that partitions the other replicas makes their calls of
\* the round fail.
\* ------------------------------------------------------------------------
\* number of treenodes beyond which the program of the harness writes no more
MaxTree == 6

NextFuzz ==
    \/ \E r \in ClusterReads : Read(r[1], r[2], r[3])
    \/ \E w \in ClusterWrites, v \in Values :
           /\ Cardinality(Written(w[1])) < MaxClientEvents
           /\ Len(validation.tree) < MaxTree
           /\ Write(w[1], w[2], w[3], v)
    \/ \E c \in Clients : Record(c)
    \/ \E p \in ClusterGossip : GossipOnce(p[1], p[2])

SpecFuzz == InitCluster /\ [][NextFuzz]_vars

\* ------------------------------------------------------------------------
\* The specification of two registered replicas that are never partitioned
\* and whose gossip timers keep firing
\* ------------------------------------------------------------------------
\* number of events that uuid.New mints in one run of the two replicas
MaxLiveEvents == 3

InitLive ==
    /\ Fresh
    /\ ModelNodes = Pair
    /\ peers = [n \in Nodes |-> IF n \in Pair THEN others(<<"a", "b">>, n) ELSE <<>>]
    /\ now = 1
    /\ budget = MaxLiveEvents

\* the requests of the clients: alice writes x = 1 at a and reads x at b, bob
\* writes x = 2 at b
LiveWrites == {<<"alice", "a", "x", "1">>, <<"bob", "b", "x", "2">>}
LiveReads == {<<"alice", "b", "x">>}
LiveGossip == {<<"a", "b">>, <<"b", "a">>}

NextLive ==
    \/ \E r \in LiveReads : Read(r[1], r[2], r[3])
    \/ \E w \in LiveWrites : Write(w[1], w[2], w[3], w[4])
    \/ \E c \in Clients : Receive(c)
    \/ \E p \in LiveGossip : GossipOnce(p[1], p[2])

\* an exchange of n with d would change one of the two replicas: the
\* condition under which a step GossipOnce(n, d) that changes the state exists
GossipPending(n, d) ==
    /\ Quiet
    /\ n \in ModelNodes
    /\ d \in SeqElems(peers[n])
    /\ LET r == gossipOnce(n, Replica(n), d, Replica(d), Reachable(n, d))
       IN  r.src # Replica(n) \/ r.dst # Replica(d)

\* strong fairness of the exchange of n with d (SF_vars(GossipOnce(n, d)), its
\* enabling condition written out): the timer of n fires again and again
\* whatever requests the clients send in between
GossipFair(n, d) ==
    \/ <>[]~GossipPending(n, d)
    \/ []<><<GossipOnce(n, d)>>_vars

\* every answer reaches its client, and every replica keeps starting
\* exchanges with its peer (Server.RunBackground)
SpecLive ==
    /\ InitLive
    /\ [][NextLive]_vars
    /\ \A c \in Clients : WF_vars(Receive(c))
    /\ \A p \in LiveGossip : GossipFair(p[1], p[2])

\* ------------------------------------------------------------------------
\* The specification of two replicas that are partitioned from each other
\* and healed while their clients write (scenario "Concurrent writes");
\* their gossip timers keep firing
\* ------------------------------------------------------------------------
\* number of events that uuid.New mints in one run of the scenario
MaxHealEvents == 2

InitHeal ==
    /\ Fresh
    /\ ModelNodes = Pair
    /\ peers = [n \in Nodes |-> IF n \in Pair THEN others(<<"a", "b">>, n) ELSE <<>>]
    /\ now = 1
    /\ budget = MaxHealEvents

\* the requests of the clients: alice writes x at a, bob writes x at b, and
\* both read x at both replicas
HealWrites == {<<"alice", "a", "x", "1">>, <<"bob", "b", "x", "2">>}
HealReads == {<<"alice", "a", "x">>, <<"alice", "b", "x">>,
              <<"bob", "a", "x">>, <<"bob", "b", "x">>}

NextHeal ==
    \/ \E r \in HealReads : Read(r[1], r[2], r[3])
    \/ \E w \in HealWrites : Write(w[1], w[2], w[3], w[4])
    \/ \E c \in Clients : Receive(c)
    \/ Partition("a", "b")
    \/ Connect("a", "b")
    \/ \E p \in LiveGossip : GossipOnce(p[1], p[2])

SpecHeal ==
    /\ InitHeal
    /\ [][NextHeal]_vars
    /\ \A c \in Clients : WF_vars(Receive(c))
    /\ \A p \in LiveGossip : GossipFair(p[1], p[2])

\* ------------------------------------------------------------------------
\* The specification of two registered replicas that gossip request by
\* request over a network that loses, repeats and delays requests
\* ------------------------------------------------------------------------
\* number of events that uuid.New mints in one run over the lossy network
MaxWireEvents == 2

InitWire ==
    /\ Fresh
    /\ ModelNodes = Pair
    /\ peers = [n \in Nodes |-> IF n \in Pair THEN others(<<"a", "b">>, n) ELSE <<>>]
    /\ now = 1
    /\ budget = MaxWireEvents

NextWire ==
    \/ \E r \in HealReads : Read(r[1], r[2], r[3])
    \/ \E w \in HealWrites : Write(w[1], w[2], w[3], w[4])
    \/ \E c \in Clients : Receive(c)
    \/ \E p \in LiveGossip : GossipBegin(p[1], p[2])
    \/ \E n \in Pair : GossipAnswer(n)
    \/ \E n \in Pair : GossipError(n)
    \/ \E n \in Pair : GossipAnswerLost(n)
    \/ \E msg \in sent : GossipAgain(msg)

SpecWire == InitWire /\ [][NextWire]_vars

\* ------------------------------------------------------------------------
\* The specification of the membership: replicas are registered, partitioned
\* and healed, and are sent view changes
\* ------------------------------------------------------------------------
\* length of the longest list of replicas of a view change
MaxView == 3

\* the lists of replicas of a view change: at most MaxView addresses, in any
\* order
Views == UNION {Orders(S) : S \in {T \in SUBSET Nodes : Cardinality(T) <= MaxView}}

\* two replicas are registered and know each other, the third is not yet
InitView ==
    /\ Fresh
    /\ ModelNodes = Pair
    /\ peers = [n \in Nodes |-> IF n \in Pair THEN others(<<"a", "b">>, n) ELSE <<>>]
    /\ now = 1
    /\ budget = 0

NextView ==
    \/ \E n \in Nodes : RegisterNode(n)
    \/ \E a \in Nodes, b \in Nodes : Partition(a, b)
    \/ \E a \in Nodes, b \in Nodes : Connect(a, b)
    \/ \E r \in Nodes, list \in Views, donotforward \in BOOLEAN :
           ViewChange(r, list, donotforward)

SpecView == InitView /\ [][NextView]_vars

\* ------------------------------------------------------------------------
\* The specification of two replicas that take writes and gossip while
\* their views are changed
\* ------------------------------------------------------------------------
\* number of events that uuid.New mints while the views change
MaxViewEvents == 2

\* number of addresses in a list sent to replicas that hold data
MaxViewList == 1

ViewLists == {list \in Views : Len(list) <= MaxViewList}

InitViewLog ==
    /\ Fresh
    /\ ModelNodes = Pair
    /\ peers = [n \in Nodes |-> IF n \in Pair THEN others(<<"a", "b">>, n) ELSE <<>>]
    /\ now = 1
    /\ budget = MaxViewEvents

NextViewLog ==
    \/ \E w \in HealWrites : Write(w[1], w[2], w[3], w[4])
    \/ \E c \in Clients : Receive(c)
    \/ \E p \in LiveGossip : GossipOnce(p[1], p[2])
    \/ \E r \in Pair, list \in ViewLists, donotforward \in BOOLEAN :
           ViewChange(r, list, donotforward)

SpecViewLog == InitViewLog /\ [][NextViewLog]_vars

\* ------------------------------------------------------------------------
\* The specification of the validator over the traces it may be called with
\* (TestValidate): any slice of writes and read results
\* ------------------------------------------------------------------------
NextValidate == \E a \in WriteActions \cup ReadActions : Validate(a)

SpecValidate == Init /\ [][NextValidate]_vars

\* ------------------------------------------------------------------------
\* The specification of the comparisons of vector clocks: they are called
\* with any two clocks
\* ------------------------------------------------------------------------
NextClock ==
    \/ /\ compared = NoCall
       /\ \E us \in VectorClocks, them \in VectorClocks : CallBefore(us, them)
    \/ /\ compared = NoCall
       /\ \E us \in VectorClocks, them \in VectorClocks : CallAfter(us, them)
    \/ /\ compared = NoCall
       /\ \E us \in VectorClocks, them \in VectorClocks : CallConcurrent(us, them)
    \/ /\ compared = NoCall
       /\ \E us \in VectorClocks, them \in VectorClocks,
             n \in 0..Cardinality(Nodes) : CallAheadOneN(us, them, n)
    \/ /\ compared = NoCall
       /\ \E us \in VectorClocks, them \in VectorClocks : CallBehind(us, them)
    \/ /\ compared = NoCall
       /\ \E left \in VectorClocks, right \in VectorClocks : CallAtMost(left, right)

SpecClock == Init /\ [][NextClock]_vars

\* ------------------------------------------------------------------------
\* The specification of a replica that is sent shipments: alice writes x at
\* replica a, and a is sent any shipment in the name of b
\* ------------------------------------------------------------------------
\* number of events that uuid.New mints at the replica
MaxShipWrites == 1

InitShip ==
    /\ Fresh
    /\ ModelNodes = Pair
    /\ peers = [n \in Nodes |-> IF n \in Pair THEN others(<<"a", "b">>, n) ELSE <<>>]
    /\ now = 1
    /\ budget = MaxShipWrites

NextShip ==
    \/ Write("alice", "a", "x", "1")
    \/ Receive("alice")
    \/ \E cols \in Shipments(Replica("a")) : RecvGossip("a", "b", cols)

SpecShip == InitShip /\ [][NextShip]_vars

\* ------------------------------------------------------------------------
\* Properties of the replica engine
\* ------------------------------------------------------------------------
\* a request of a client is answered in this step
Answered == reply = NoReply /\ reply' # NoReply

\* the replica fields stay as they are
ReplicasUnchanged == UNCHANGED <<maxcc, events, latest, byid, acked>>

\* C6 (P1, monotonic clocks): across every step, maxcc of every replica never
\* decreases in any entry.
MaxccMonotone ==
    [][\A n \in Nodes, k \in Nodes : maxcc[n][k] <= maxcc'[n][k]]_vars

\* a replica with two events of its own has merged the clock of a column it
\* already had
MaxccMonotoneWitness ==
    \E n \in Nodes, m \in Nodes :
        /\ n # m
        /\ maxcc[n][n] >= 2
        /\ \E i \in 1..Len(events[n]) :
            /\ minted[events[n][i].id].node = n
            /\ events[n][i].context[m] >= 1

\* C7 (P3): in every reachable state, maxcc of a replica dominates pointwise
\* the stored context of every column of its log, merged columns included.
MaxccDominates ==
    \A n \in Nodes : \A i \in 1..Len(events[n]) : \A k \in Nodes :
        events[n][i].context[k] <= maxcc[n][k]

\* the context of a column was raised by a merge at the replica that minted it
MaxccDominatesWitness ==
    \E n \in Nodes : \E i \in 1..Len(events[n]) :
        /\ minted[events[n][i].id].node = n
        /\ events[n][i].context # minted[events[n][i].id].ctx

\* C8 (P2, log monotonicity): the log of a replica only grows by appending;
\* key, value, id and timestamp of an occupied index never change, its
\* replicated set only grows and its context only rises pointwise.
LogMonotone ==
    [][\A n \in Nodes :
        /\ Len(events[n]) <= Len(events'[n])
        /\ \A i \in 1..Len(events[n]) :
            /\ events'[n][i].key = events[n][i].key
            /\ events'[n][i].value = events[n][i].value
            /\ events'[n][i].id = events[n][i].id
            /\ events'[n][i].timestamp = events[n][i].timestamp
            /\ events[n][i].replicated \subseteq events'[n][i].replicated
            /\ \A k \in Nodes :
                events[n][i].context[k] <= events'[n][i].context[k]]_vars

\* a log holds two columns of one key, the first of them merged
LogMonotoneWitness ==
    \E n \in Nodes :
        /\ Len(events[n]) >= 2
        /\ events[n][1].key = events[n][2].key
        /\ Cardinality(events[n][1].replicated) >= 2
        /\ events[n][1].context # minted[events[n][1].id].ctx
        /\ minted[events[n][1].id].node = n

\* C9: a read or a write is answered Unavailable exactly when maxcc of the
\* replica is behind the context of the client in at least one entry, and a
\* request answered Unavailable leaves the replica as it was.
UnavailableIffBehind ==
    [][Answered =>
        /\ reply'.status = 503 <=>
              \E k \in Nodes :
                  maxcc[reply'.node][k] < context[reply'.client][k]
        /\ reply'.status = 503 => ReplicasUnchanged]_vars

\* a write is refused by a replica that has events of its own
UnavailableIffBehindWitness ==
    /\ reply # NoReply
    /\ reply.op = "write"
    /\ reply.status = 503
    /\ Len(events[reply.node]) >= 1

\* C10: when the context of the client is satisfied, a read of a missing key
\* answers NotFound and the context of the client is preserved; otherwise it
\* answers the value of the latest column of the key with the pointwise max
\* of the context of that column and of the client; the replica is unchanged.
ReadSemantics ==
    [][/\ (Answered /\ reply'.op = "read") =>
           LET n == reply'.node
               k == reply'.key
               ctx == context[reply'.client]
           IN  /\ ReplicasUnchanged
               /\ (\A j \in Nodes : maxcc[n][j] >= ctx[j]) =>
                    IF k \notin DOMAIN latest[n]
                    THEN reply'.status = 404 /\ reply'.ctx = ctx
                    ELSE /\ reply'.status = 200
                         /\ reply'.value = events[n][latest[n][k]].value
                         /\ \A j \in Nodes :
                             /\ reply'.ctx[j] >= ctx[j]
                             /\ reply'.ctx[j] >= events[n][latest[n][k]].context[j]
                             /\ reply'.ctx[j] \in
                                 {ctx[j], events[n][latest[n][k]].context[j]}
       /\ (reply # NoReply /\ reply' = NoReply /\ reply.status = 404) =>
             context' = context]_vars

\* a read is answered a context above that of the column and of the client
ReadSemanticsWitness ==
    /\ reply # NoReply
    /\ reply.op = "read"
    /\ reply.status = 200
    /\ reply.ctx # context[reply.client]
    /\ reply.ctx # lookup(Replica(reply.node), reply.key).context

\* ------------------------------------------------------------------------
\* Properties of the sessions of the clients
\* ------------------------------------------------------------------------
\* some write of the key that does not causally precede the event e has the
\* value
NotOlder(key, value, e) ==
    \E w \in 1..Len(minted) :
        /\ minted[w].key = key
        /\ minted[w].value = value
        /\ w \notin minted[e].deps

\* C1 (causal reads): once a client has witnessed a write event e on a key,
\* every later successful read of the key by the client returns the value of
\* e or of a write that does not causally precede e, never an older value.
CausalReads ==
    (reply # NoReply /\ reply.op = "read" /\ reply.status = 200) =>
        \A e \in seen[reply.client] :
            minted[e].key = reply.key => NotOlder(reply.key, reply.value, e)

\* C2 (P5, read-your-writes): a client that completed a write of a key and
\* reads the key with the context of that write, on any replica, is never
\* answered NotFound and never a value that its write overwrote.
ReadYourWrites ==
    (reply # NoReply /\ reply.op = "read") =>
        \A e \in 1..Len(minted) :
            (/\ minted[e].client = reply.client
             /\ minted[e].key = reply.key
             /\ minted[e].ctx = context[reply.client]) =>
                /\ reply.status # 404
                /\ reply.status = 200 => NotOlder(reply.key, reply.value, e)

\* ------------------------------------------------------------------------
\* Properties of the exchanges in the long run
\* ------------------------------------------------------------------------
\* the replicas hold identical key-to-value maps
Converged ==
    \A n \in ModelNodes, m \in ModelNodes, k \in Keys :
        /\ HasKey(Replica(n), k) <=> HasKey(Replica(m), k)
        /\ HasKey(Replica(n), k) =>
              lookup(Replica(n), k).value = lookup(Replica(m), k).value

\* C3 (P4, convergence): when the writes have ended and every pair of
\* replicas keeps exchanging gossip without loss, eventually all replicas hold
\* identical key-to-value maps, for good.
Convergence == <>[]Converged

\* maxcc of every replica dominates the context handed to every client
Available ==
    \A n \in ModelNodes, c \in Clients, k \in Nodes : maxcc[n][k] >= context[c][k]

\* C4 (availability after heal): an event that playLog refused is applied in
\* a later cycle, so while gossip keeps running maxcc of every replica
\* eventually dominates every context handed to a client, for good.
EventuallyAvailable == <>[]Available


\* C5 (P6, validator soundness): ValidateCausality accepts the Record of
\* every execution of the harness: it never returns a CausalError.
RecordAccepted == ~validation.err

\* ------------------------------------------------------------------------
\* Properties of Server.update
\* ------------------------------------------------------------------------
\* the replica holds the value as the latest column of the key
HoldsLatest(n, k, v) ==
    /\ k \in DOMAIN latest[n]
    /\ events[n][latest[n][k]].value = v

\* a write is answered in this step by a replica that is not behind the
\* context of the client
WriteServed ==
    /\ Answered
    /\ reply'.op = "write"
    /\ \A j \in Nodes : maxcc[reply'.node][j] >= context[reply'.client][j]

\* C11: an accepted write of a new (key, value) mints exactly one event:
\* maxcc becomes the pointwise max of maxcc and the context of the client
\* with the own entry of the replica incremented by one; one column is
\* appended with context equal to the new maxcc and replicated = {name};
\* latest[key] and byid point at it; the context answered equals the new
\* maxcc.
MintOneEvent ==
    [][(WriteServed /\ ~HoldsLatest(reply'.node, reply'.key, reply'.value)) =>
        LET n == reply'.node
            ctx == context[reply'.client]
            len == Len(events[n]) + 1
        IN  /\ reply'.status = 200
            /\ \A j \in Nodes :
                maxcc'[n][j] = (IF maxcc[n][j] >= ctx[j] THEN maxcc[n][j] ELSE ctx[j])
                               + (IF j = n THEN 1 ELSE 0)
            /\ Len(events'[n]) = len
            /\ SubSeq(events'[n], 1, len - 1) = events[n]
            /\ events'[n][len].key = reply'.key
            /\ events'[n][len].value = reply'.value
            /\ events'[n][len].context = maxcc'[n]
            /\ events'[n][len].replicated = {n}
            /\ events'[n][len].id \notin DOMAIN byid[n]
            /\ latest'[n] = MapSet(latest[n], reply'.key, len)
            /\ byid'[n] = MapSet(byid[n], events'[n][len].id, len)
            /\ Len(minted') = Len(minted) + 1
            /\ reply'.ctx = maxcc'[n]
            /\ \A m \in Nodes \ {n} :
                /\ maxcc'[m] = maxcc[m]
                /\ events'[m] = events[m]]_vars

\* the answer in flight is that of a write that minted a second column of
\* the key at a replica, for a client that came with a context
MintOneEventWitness ==
    /\ reply # NoReply
    /\ reply.op = "write"
    /\ reply.status = 200
    /\ reply.id = Len(minted)
    /\ reply.id \notin seen[reply.client]
    /\ context[reply.client] # EmptyClock
    /\ \E i \in 1..Len(events[reply.node]) :
        /\ events[reply.node][i].key = reply.key
        /\ events[reply.node][i].id # reply.id

\* C12: a write whose key and value equal the latest column of the key at
\* the replica is acknowledged without any mutation: events, latest, byid
\* and maxcc are unchanged, no event id is minted, and the context answered
\* is the pointwise max of the context of the client and of that column.
DuplicateWriteAck ==
    [][(WriteServed /\ HoldsLatest(reply'.node, reply'.key, reply'.value)) =>
        LET n == reply'.node
            ctx == context[reply'.client]
            col == events[n][latest[n][reply'.key]]
        IN  /\ reply'.status = 200
            /\ ReplicasUnchanged
            /\ minted' = minted
            /\ \A j \in Nodes :
                reply'.ctx[j] = IF ctx[j] >= col.context[j] THEN ctx[j]
                                ELSE col.context[j]]_vars

\* the answer in flight acknowledges a write of a value that another client
\* wrote, and hands the client a context it did not have
DuplicateWriteAckWitness ==
    /\ reply # NoReply
    /\ reply.op = "write"
    /\ reply.status = 200
    /\ minted[reply.id].client # reply.client
    /\ reply.ctx # context[reply.client]

\* ------------------------------------------------------------------------
\* Properties of the tie-break of concurrent writes (Server.playLog)
\* ------------------------------------------------------------------------
\* the timestamp the event got where it was minted
TimestampOf(e) ==
    LET n == minted[e].node IN events[n][byid[n][e]].timestamp

\* two events were minted, for one key, on the two replicas, while these
\* were partitioned (neither write saw the other), with different timestamps
TwoPartitionedWrites ==
    /\ Len(minted) = 2
    /\ minted[1].key = minted[2].key
    /\ minted[1].node # minted[2].node
    /\ 1 \notin minted[2].deps
    /\ minted[1].ctx[minted[2].node] = 0
    /\ minted[2].ctx[minted[1].node] = 0
    /\ TimestampOf(1) # TimestampOf(2)

\* the event with the later timestamp
LaterEvent == IF TimestampOf(1) > TimestampOf(2) THEN 1 ELSE 2

\* both replicas hold the value of the later event for the key
BothHoldLater ==
    \A n \in Pair :
        /\ minted[1].key \in DOMAIN latest[n]
        /\ events[n][latest[n][minted[1].key]].value = minted[LaterEvent].value

TieAt(n, d) ==
    LET cols == EventsFrom(events[d], indexNotAcked(Replica(d), n))
    IN  /\ Len(cols) > 0
        /\ ~HasID(Replica(n), cols[1].id)
        /\ Concurrent(maxcc[n], cols[1].context)
        /\ HasKey(Replica(n), cols[1].key)
        /\ lookup(Replica(n), cols[1].key).timestamp = cols[1].timestamp

\* C14 (local write wins on equal timestamps): when playLog meets an unknown
\* column that is concurrent with maxcc and whose timestamp equals that of
\* the latest column of the replica for the same key, the existing column
\* stays latest[key] and the incoming value is not made visible.
LocalWinsOnTie ==
    \A n \in Pair, d \in Pair :
        (n # d /\ TieAt(n, d)) =>
            LET col == EventsFrom(events[d], indexNotAcked(Replica(d), n))[1]
                after == PlayCol(n, Replica(n), col).s
            IN  /\ after.latest[col.key] = latest[n][col.key]
                /\ lookup(after, col.key).value = lookup(Replica(n), col.key).value

\* ------------------------------------------------------------------------
\* Invariants of the store of a replica
\* ------------------------------------------------------------------------
\* the replica holds in its log a column of the event
Holds(n, id) == \E j \in 1..Len(events[n]) : events[n][j].id = id

\* C15 (replicated sets are truthful): for every replica r and every column
\* of the log of r, every node of the replicated set of the column holds in
\* its own log a column with the same event id; so the cursor acked[p] of r
\* never passes an event that p does not hold, also when gossip messages or
\* replies are lost, duplicated or reordered.
ReplicatedTruthful ==
    \A r \in Nodes : \A i \in 1..Len(events[r]) :
        /\ \A n \in events[r][i].replicated : Holds(n, events[r][i].id)
        /\ \A p \in Nodes : i <= acked[r][p] => Holds(p, events[r][i].id)

\* a replica holds a column that it took from a push whose answer was lost:
\* the replica that minted it has no request in flight and does not know
ReplicatedTruthfulWitness ==
    \E n \in Pair, d \in Pair :
        /\ n # d
        /\ call[n] = Idle
        /\ \E i \in 1..Len(events[n]), j \in 1..Len(events[d]) :
            /\ events[n][i].id = events[d][j].id
            /\ minted[events[n][i].id].node = n
            /\ d \in events[d][j].replicated
            /\ d \notin events[n][i].replicated
\* C16: in every reachable state, every column of the log of a replica has
\* the name of that replica in its replicated set.
OwnNameReplicated ==
    \A n \in Nodes : \A i \in 1..Len(events[n]) : n \in events[n][i].replicated

\* a replica holds a column that it took by gossip and whose clock it merged
\* afterwards
OwnNameReplicatedWitness ==
    \E n \in Nodes : \E i \in 1..Len(events[n]) :
        /\ minted[events[n][i].id].node # n
        /\ events[n][i].context # maxcc[n]
        /\ Len(events[n]) >= 2

\* C17: in every reachable state the indices are consistent with the log:
\* latest[k] is a valid index of a column of key k, and byid[id] is a valid
\* index of the column of event id.
IndicesConsistent ==
    \A n \in Nodes :
        /\ \A k \in DOMAIN latest[n] :
            /\ latest[n][k] \in 1..Len(events[n])
            /\ events[n][latest[n][k]].key = k
        /\ \A id \in DOMAIN byid[n] :
            /\ byid[n][id] \in 1..Len(events[n])
            /\ events[n][byid[n][id]].id = id

\* a replica holds two columns of one key, the later of them taken by gossip
IndicesConsistentWitness ==
    \E n \in Nodes : \E k \in DOMAIN latest[n] :
        /\ latest[n][k] >= 2
        /\ minted[events[n][latest[n][k]].id].node # n
        /\ \E i \in 1..(latest[n][k] - 1) : events[n][i].key = k

\* C18: for every replica and every peer p, the cursor acked[p] never
\* decreases, is at most the length of the log, and every column at an index
\* below it has p in its replicated set.
CursorSound ==
    [][\A n \in Nodes, p \in Nodes :
        /\ acked[n][p] <= acked'[n][p]
        /\ acked'[n][p] <= Len(events'[n])
        /\ \A i \in 1..acked'[n][p] : p \in events'[n][i].replicated]_vars

\* a cursor stands between two columns of the log: the peer has acknowledged
\* the first and not the second
CursorSoundWitness ==
    \E n \in Nodes, p \in Nodes :
        /\ n # p
        /\ acked[n][p] >= 1
        /\ acked[n][p] < Len(events[n])
        /\ p \notin events[n][acked[n][p] + 1].replicated

\* ------------------------------------------------------------------------
\* Properties of the locking of a gossip exchange
\* ------------------------------------------------------------------------
\* C19: during a gossip exchange the lock of the replica is not held while
\* a request to a peer is in flight (so that reads, writes and incoming
\* gossip on that replica can proceed while it waits for the peer).
LockFreeInFlight == \A n \in Nodes : call[n] # Idle => ~lock[n]

\* ------------------------------------------------------------------------
\* Properties of the membership
\* ------------------------------------------------------------------------
\* the list without the address of the replica
Without(list, n) == SelectSeq(list, LAMBDA x : x # n)

\* C20 (view change): a request with the list L and the flag unset, got by
\* replica r, is forwarded with the flag set to each listed address other
\* than that of r; it fails if one of these forwards fails; when it succeeds
\* r and every replica it was forwarded to have peers equal to L minus their
\* own address.  A replica that gets a request with the flag set forwards
\* nothing.
ViewChangeEffect ==
    [][viewed' # viewed =>
        LET r == viewed'.node
            L == viewed'.replicas
            targets == {L[i] : i \in 1..Len(L)} \ {r}
            failing == \E t \in targets :
                           t \notin ModelNodes \/ t \notin reachFrom(ModelNodes, {r})
        IN  IF viewed'.donotforward
            THEN /\ viewed'.ok
                 /\ peers'[r] = Without(L, r)
                 /\ \A x \in Nodes \ {r} : peers'[x] = peers[x]
            ELSE /\ viewed'.ok <=> ~failing
                 /\ viewed'.ok =>
                      /\ \A x \in targets \cup {r} : peers'[x] = Without(L, x)
                      /\ \A x \in Nodes \ (targets \cup {r}) : peers'[x] = peers[x]]_vars

\* a request with the flag unset and a list of the three replicas succeeded
\* at a replica whose list was another one, while two replicas were
\* partitioned from each other
ViewChangeEffectWitness ==
    /\ viewed # NoView
    /\ ~viewed.donotforward
    /\ viewed.ok
    /\ {viewed.replicas[i] : i \in 1..Len(viewed.replicas)} = Nodes
    /\ Partitions # {}
    /\ \A n \in Nodes : peers[n] = Without(viewed.replicas, n)


\* ------------------------------------------------------------------------
\* Properties of the client session
\* ------------------------------------------------------------------------
\* C21 (client session): the stored context starts empty, is sent unchanged
\* with every read and write (the answer is the one the replica gives to the
\* stored context, and sending does not change it), is replaced by the
\* context of each successful reply, and is left as it was by a reply of
\* Unavailable or NotFound.
ClientSession ==
    /\ \A c \in Clients : context[c] = EmptyClock
    /\ [][/\ (reply = NoReply /\ reply' # NoReply) =>
               LET c == reply'.client
                   s == Replica(reply'.node)
               IN  /\ context' = context
                   /\ reply'.op = "read" =>
                        /\ reply'.status = readResult(s, reply'.key, context[c]).status
                        /\ reply'.ctx = readResult(s, reply'.key, context[c]).ctx
                   /\ reply'.op = "write" =>
                        /\ (reply'.status = 503) <=> Behind(s.maxcc, context[c])
                        /\ reply'.status = 200 =>
                             \A n \in Nodes : reply'.ctx[n] >= context[c][n]
          /\ (reply # NoReply /\ reply' = NoReply) =>
               LET c == reply.client
               IN  /\ reply.status = 200 => context'[c] = reply.ctx
                   /\ reply.status \in {404, 503} => context'[c] = context[c]
                   /\ \A d \in Clients \ {c} : context'[d] = context[d]]_vars

\* a client whose context was replaced by a successful reply is being
\* answered Unavailable, while another client still has the empty context
ClientSessionWitness ==
    /\ reply # NoReply
    /\ reply.status = 503
    /\ context[reply.client] # EmptyClock
    /\ \E d \in Clients : d # reply.client /\ context[d] = EmptyClock

\* ------------------------------------------------------------------------
\* Properties of the validator
\* ------------------------------------------------------------------------
\* the nodes that happened before node t of the history
RECURSIVE Ancestors(_, _)
Ancestors(tree, t) ==
    LET direct == SeqElems(tree[t].before)
    IN  direct \cup UNION {Ancestors(tree, p) : p \in direct}

\* the nodes of the history that write key = value
WritesOf(tree, key, value) ==
    {n \in 1..Len(tree) : ~tree[n].root /\ tree[n].key = key /\ tree[n].value = value}

\* the validator is handed a read of key = value by a client that has a
\* cursor at a write of key, and every write of key = value happened before
\* that write
TimeReversal(v, a) ==
    /\ a.op = "read"
    /\ a.status = 200
    /\ \E i \in 1..Len(v.cursors[a.client]) :
        LET cur == v.cursors[a.client][i]
        IN  /\ v.tree[cur].key = a.key
            /\ WritesOf(v.tree, a.key, a.value) # {}
            /\ WritesOf(v.tree, a.key, a.value) \subseteq Ancestors(v.tree, cur)

\* C22 (time reversal): once a cursor of a client is at a write of key k, a
\* later read by that client of a value of k written causally before that
\* write makes ValidateCausality return an error, after any trace.
TimeReversalRejected ==
    [][TimeReversal(validation, fed') => validation'.err]_vars

\* a write of key is a cursor of the client or happened before one
TouchedKey(v, client, key) ==
    \E i \in 1..Len(v.cursors[client]) :
        LET cur == v.cursors[client][i]
        IN  \E n \in Ancestors(v.tree, cur) \cup {cur} :
                ~v.tree[n].root /\ v.tree[n].key = key

\* C23 (NotFound): the validator accepts a NotFound read of key k exactly
\* when no write of k is a causal predecessor of any cursor of the reading
\* client: it is accepted for a client with no history or whose history
\* never touched k, and rejected when the client wrote k itself or has read
\* a value written causally after a write of k.
NotFoundExact ==
    [][(fed'.op = "read" /\ fed'.status = 404) =>
          (validation'.err <=> TouchedKey(validation, fed'.client, fed'.key))]_vars

\* the nodes writing key = value that are after a root and neither before nor
\* after, nor the same as, any cursor of the client
Independent(v, client, key, value) ==
    {n \in WritesOf(v.tree, key, value) :
        /\ \E r \in v.roots : r \in Ancestors(v.tree, n)
        /\ \A i \in 1..Len(v.cursors[client]) :
            LET cur == v.cursors[client][i]
            IN  /\ n # cur
                /\ n \notin Ancestors(v.tree, cur)
                /\ cur \notin Ancestors(v.tree, n)}

\* no cursor of the client explains the read of key = value
Unexplained(v, client, key, value) ==
    ~cursorLoop(v.tree, v.cursors[client], 1, key, value, FALSE, 0).done

\* C24 (independent observation): when no cursor of the reading client
\* explains a read of (k, v), the validator accepts the read if some node
\* with key k and value v reachable from a root is causally unrelated to
\* every cursor of the reader, and then adds such a node to the cursors of the
\* reader; otherwise it returns an error.
IndependentObservation ==
    [][(/\ fed'.op = "read"
        /\ fed'.status = 200
        /\ Unexplained(validation, fed'.client, fed'.key, fed'.value)) =>
          LET c == fed'.client
              free == Independent(validation, c, fed'.key, fed'.value)
          IN  IF free = {} THEN validation'.err
              ELSE /\ ~validation'.err
                   /\ validation'.tree = validation.tree
                   /\ \E n \in free :
                        validation'.cursors =
                            [validation.cursors EXCEPT ![c] = Append(@, n)]]_vars

\* a client that had a cursor has read a value written independently of it,
\* and has both cursors now
IndependentObservationWitness ==
    /\ fed.op = "read"
    /\ fed.status = 200
    /\ ~validation.err
    /\ LET curs == validation.cursors[fed.client]
       IN  /\ Len(curs) >= 2
           /\ validation.tree[curs[Len(curs)]].key = fed.key
           /\ validation.tree[curs[Len(curs)]].value = fed.value
           /\ \A i \in 1..(Len(curs) - 1) :
                /\ curs[i] \notin Ancestors(validation.tree, curs[Len(curs)])
                /\ curs[Len(curs)] \notin Ancestors(validation.tree, curs[i])

\* an action that reports an error: a read result with Error, or a write
\* whose value is "error"
ErrorAction(a) ==
    \/ a.op = "read" /\ a.status = 503
    \/ a.op = "write" /\ a.value = "error"

\* C25 (error entries): a read result flagged Error, or a write reported as
\* an error, leaves the roots, the history and the cursors of the validator as
\* they are, whatever the trace before it; so inserting one into a trace or
\* removing one from it leaves the verdict of ValidateCausality unchanged.
ErrorActionsIgnored ==
    [][ErrorAction(fed') => validation' = validation]_vars

\* the validator was handed a read result with Error of a key that the
\* client has a cursor at, and the history is as it was
ErrorActionsIgnoredWitness ==
    /\ fed.op = "read"
    /\ fed.status = 503
    /\ ~validation.err
    /\ \E i \in 1..Len(validation.cursors[fed.client]) :
        validation.tree[validation.cursors[fed.client][i]].key = fed.key

\* ------------------------------------------------------------------------
\* Properties of the vector clocks
\* ------------------------------------------------------------------------
\* V <= W pointwise and V < W at some node, a missing entry read as zero
StrictlyBelow(V, W) ==
    /\ \A k \in Nodes : At(V, k) <= At(W, k)
    /\ \E k \in Nodes : At(V, k) < At(W, k)

\* C26 (ordering): with absent entries read as zero, before(V, W) holds
\* exactly when V <= W pointwise and V[k] < W[k] for some k; before is
\* irreflexive; after(V, W) equals before(W, V); concurrent(V, W) equals not
\* before and not after, is symmetric, and holds when V equals W.
ClockOrdering ==
    LET V == compared.us
        W == compared.them
    IN  /\ compared.method = "Before" =>
              /\ compared.result <=> StrictlyBelow(V, W)
              /\ V = W => ~compared.result
        /\ compared.method = "After" =>
              \A keys \in Orders(zipkeys(W, V)) :
                  compared.result <=> rangeBefore(W, V, keys, 1, FALSE)
        /\ compared.method = "Concurrent" =>
              /\ compared.result <=> (~StrictlyBelow(V, W) /\ ~StrictlyBelow(W, V))
              /\ \A keys \in Orders(zipkeys(W, V)), more \in Orders(zipkeys(W, V)) :
                    compared.result <=> (/\ ~rangeBefore(W, V, keys, 1, FALSE)
                                         /\ ~rangeAfter(W, V, more, 1, FALSE))
              /\ (\A k \in Nodes : At(V, k) = At(W, k)) => compared.result

\* Before returned true for a clock that lacks an entry the other has, and
\* Concurrent returned true for two clocks that differ
ClockOrderingWitness ==
    /\ compared.method = "Before"
    /\ compared.result
    /\ DOMAIN compared.us # DOMAIN compared.them
    /\ \E k \in DOMAIN compared.them \ DOMAIN compared.us : compared.them[k] > 0

\* C27 (ahead_one_n): ahead_one_n(V, W, n) holds exactly when, with absent
\* entries read as zero, W[k] - V[k] is 0 or 1 for every node k and the
\* number of nodes with difference 1 is exactly n; it is false whenever V
\* exceeds W in an entry, and ahead_one_n(V, V, 0) is true.
AheadOneNExact ==
    compared.method = "AheadOneN" =>
        LET V == compared.us
            W == compared.them
        IN  /\ compared.result <=>
                  /\ \A k \in Nodes : At(W, k) - At(V, k) \in {0, 1}
                  /\ Cardinality({k \in Nodes : At(W, k) - At(V, k) = 1}) = compared.n
            /\ (\E k \in Nodes : At(V, k) > At(W, k)) => ~compared.result
            /\ (V = W /\ compared.n = 0) => compared.result

\* AheadOneN returned true for two entries ahead by one, one of them missing
\* in the clock that is behind
AheadOneNExactWitness ==
    /\ compared.method = "AheadOneN"
    /\ compared.result
    /\ compared.n = 2
    /\ DOMAIN compared.us # DOMAIN compared.them

\* ------------------------------------------------------------------------
\* Properties of playLog
\* ------------------------------------------------------------------------
\* C28 (known column): when playLog is given a column whose event id is in
\* byid and whose clock differs from the stored clock in its replicated set
\* or in its context, the stored context becomes the pointwise max of both,
\* the stored replicated set becomes the union of both, maxcc is raised to
\* dominate the merged context, and the merged column is replied; when the
\* clocks are identical nothing changes and nothing is replied.
KnownColumnMerge ==
    \A n \in Pair : \A col \in ShipColumns(Replica(n)) :
        HasID(Replica(n), col.id) =>
            LET s == Replica(n)
                idx == s.byid[col.id]
                existing == s.events[idx]
                r == playLog(n, s, <<col>>)
                merged == [existing EXCEPT
                             !.context = [k \in Nodes |->
                                 IF col.context[k] > existing.context[k]
                                 THEN col.context[k] ELSE existing.context[k]],
                             !.replicated = existing.replicated \cup col.replicated]
            IN  IF existing.context # col.context
                   \/ existing.replicated # col.replicated
                THEN /\ r.s.events = [s.events EXCEPT ![idx] = merged]
                     /\ \A k \in Nodes : r.s.maxcc[k] >= merged.context[k]
                     /\ \A k \in Nodes : r.s.maxcc[k] >= s.maxcc[k]
                     /\ UpdatedCols(r) = <<merged>>
                ELSE /\ r.s = s
                     /\ UpdatedCols(r) = <<>>

\* the column is unknown to the replica and its context is neither concurrent
\* with maxcc nor ahead of it by one at as many nodes as hold the column
Gap(s, col) ==
    /\ col.id \notin {s.events[i].id : i \in 1..Len(s.events)}
    /\ ~Concurrent(s.maxcc, col.context)
    /\ ~AheadOneN(s.maxcc, col.context, Cardinality(col.replicated))

\* column j of the shipment is the first that meets a gap
FirstGap(n, s, cols, j) ==
    /\ \A i \in 1..(j - 1) :
          ~Gap(playLog(n, s, SubSeq(cols, 1, i - 1)).s, cols[i])
    /\ Gap(playLog(n, s, SubSeq(cols, 1, j - 1)).s, cols[j])

\* C29 (dependency gap): when playLog meets an unknown column whose context
\* is neither concurrent with maxcc nor ahead_one_n of maxcc with n the size
\* of the replicated set of the column, it applies neither that column nor
\* any later column of the shipment, known or unknown, and returns only the
\* replies accumulated before it.
StopsAtGap ==
    \A n \in Pair : \A cols \in Shipments(Replica(n)) : \A j \in 1..Len(cols) :
        FirstGap(n, Replica(n), cols, j) =>
            LET before == playLog(n, Replica(n), SubSeq(cols, 1, j - 1))
                all == playLog(n, Replica(n), cols)
            IN  /\ all.s = before.s
                /\ UpdatedCols(all) = UpdatedCols(before)

\* the replica may be sent a shipment whose first column it takes and
\* replies and whose second column meets a gap, and a shipment whose first
\* column meets a gap and whose second column it would take by itself
StopsAtGapWitness ==
    LET s == Replica("a")
    IN  /\ Len(s.events) > 0
        /\ \E cols \in Shipments(s) :
            /\ Len(cols) = 2
            /\ FirstGap("a", s, cols, 2)
            /\ UpdatedCols(playLog("a", s, cols)) # <<>>
        /\ \E cols \in Shipments(s) :
            /\ Len(cols) = 2
            /\ FirstGap("a", s, cols, 1)
            /\ playLog("a", s, <<cols[2]>>).s # s

\* the column is unknown to the replica and concurrent with its maxcc, and the
\* latest column of the replica for the same key has a later timestamp
LaterLocal(s, col) ==
    /\ col.id \notin {s.events[i].id : i \in 1..Len(s.events)}
    /\ ~StrictlyBelow(s.maxcc, col.context)
    /\ ~StrictlyBelow(col.context, s.maxcc)
    /\ col.key \in DOMAIN s.latest
    /\ s.events[s.latest[col.key]].timestamp > col.timestamp

Accepted(s, col) ==
    LET concurrent == ~StrictlyBelow(s.maxcc, col.context)
                      /\ ~StrictlyBelow(col.context, s.maxcc)
        ahead == /\ \A k \in Nodes : col.context[k] - s.maxcc[k] \in {0, 1}
                 /\ Cardinality({k \in Nodes : col.context[k] - s.maxcc[k] = 1})
                        = Cardinality(col.replicated)
    IN  /\ col.id \notin {s.events[i].id : i \in 1..Len(s.events)}
        /\ concurrent \/ ahead
        /\ ~(concurrent /\ LaterLocal(s, col))

\* C31 (accept step): an unknown column that passes the acceptability check
\* and is not dropped by the tie-break is appended exactly once with the
\* local replica added to its replicated set, after maxcc has been raised by
\* the incoming context and the own entry of the replica incremented by one;
\* the context of the appended column equals the new maxcc, latest[key] and
\* byid point at it, and it is put in the reply.
AcceptStep ==
    \A n \in Pair : \A col \in ShipColumns(Replica(n)) :
        Accepted(Replica(n), col) =>
            LET s == Replica(n)
                r == playLog(n, s, <<col>>)
                raised == [k \in Nodes |->
                             IF col.context[k] > s.maxcc[k]
                             THEN col.context[k] ELSE s.maxcc[k]]
                newcc == [raised EXCEPT ![n] = raised[n] + 1]
                newcol == [col EXCEPT !.context = newcc,
                                      !.replicated = col.replicated \cup {n}]
                answer == recvGossip(n, s, "b", <<col>>)
            IN  /\ r.s.events = Append(s.events, newcol)
                /\ r.s.maxcc = newcc
                /\ r.s.latest[col.key] = Len(s.events) + 1
                /\ r.s.byid[col.id] = Len(s.events) + 1
                /\ \A k \in DOMAIN s.latest \ {col.key} : r.s.latest[k] = s.latest[k]
                /\ \A i \in DOMAIN s.byid : r.s.byid[i] = s.byid[i]
                /\ UpdatedCols(r) = <<newcol>>
                /\ newcol \in SeqElems(answer.cols)
                /\ Cardinality({i \in 1..Len(answer.s.events) :
                                   answer.s.events[i].id = col.id}) = 1

\* the replica has a column of its own and may be sent an unknown column,
\* concurrent with its maxcc, that it appends, and an unknown column one
\* event ahead of its maxcc that it appends
AcceptStepWitness ==
    LET s == Replica("a")
    IN  /\ Len(s.events) > 0
        /\ \E col \in ShipColumns(s) :
            /\ Accepted(s, col)
            /\ ~StrictlyBelow(s.maxcc, col.context)
            /\ Len(playLog("a", s, <<col>>).s.events) = Len(s.events) + 1
        /\ \E col \in ShipColumns(s) :
            /\ Accepted(s, col)
            /\ StrictlyBelow(s.maxcc, col.context)
            /\ Len(playLog("a", s, <<col>>).s.events) = Len(s.events) + 1

\* ------------------------------------------------------------------------
\* Properties of the gossip exchange
\* ------------------------------------------------------------------------
\* the cursor of every replica for every peer is at the end of its log: the
\* payload of every exchange is empty
Quiesced ==
    \A n \in ModelNodes : \A p \in SeqElems(peers[n]) :
        /\ acked[n][p] = Len(events[n])
        /\ EventsFrom(events[n], indexNotAcked(Replica(n), p)) = <<>>

\* C32 (gossip quiesces): after the last client write, when exchanges
\* between every pair of replicas keep occurring without message loss, every
\* replica eventually reaches acked[p] = len(events) for every peer p, so
\* that the payloads of both sides are empty and an exchange sends no message.
Quiescence ==
    <>[][~(\E w \in LiveWrites : Write(w[1], w[2], w[3], w[4]))]_vars
        => <>[]Quiesced

\* ------------------------------------------------------------------------
\* Properties of the view change over replicas that hold data
\* ------------------------------------------------------------------------
\* C33 (frame of the view change): a view change touches no state other than
\* the peer list: events, latest, byid, maxcc and acked of the receiving
\* replica are the same before and after the request, whether it succeeds
\* or fails.
ViewChangeFrame ==
    [][\A r \in Nodes, list \in ViewLists, donotforward \in BOOLEAN :
          ViewChange(r, list, donotforward) =>
              /\ events'[r] = events[r]
              /\ latest'[r] = latest[r]
              /\ byid'[r] = byid[r]
              /\ maxcc'[r] = maxcc[r]
              /\ acked'[r] = acked[r]]_vars

\* a request succeeded and replaced the peer list of a replica that holds
\* two columns and has moved its cursor for a peer
ViewChangeFrameWitness ==
    /\ viewed # NoView
    /\ viewed.ok
    /\ peers[viewed.node] = <<"c">>
    /\ Len(events[viewed.node]) = 2
    /\ \E p \in Nodes : acked[viewed.node][p] > 0

\* ------------------------------------------------------------------------
\* Properties of the searches of the validator
\* ------------------------------------------------------------------------
\* the nodes one step before (or after) the node
StepOf(tree, n, before) ==
    IF before THEN SeqElems(tree[n].before)
    ELSE {j \in 1..Len(tree) : n \in SeqElems(tree[j].before)}

\* the nodes whose distance from t, backwards or forwards, is exactly d
RECURSIVE Level(_, _, _, _)
Level(tree, t, before, d) ==
    IF d = 0 THEN {t}
    ELSE UNION {StepOf(tree, n, before) : n \in Level(tree, t, before, d - 1)}
             \ UNION {Level(tree, t, before, e) : e \in 0..(d - 1)}

\* the node is a root or writes the key
KeyMatch(tree, n, key) == tree[n].root \/ tree[n].key = key

\* the distances from t at which a node matches the key
MatchDistances(tree, t, key, before) ==
    {d \in 0..Len(tree) : \E n \in Level(tree, t, before, d) : KeyMatch(tree, n, key)}

\* the matching nodes at the smallest backward distance from t
Nearest(tree, t, key) ==
    LET ds == MatchDistances(tree, t, key, TRUE)
    IN  IF ds = {} THEN {}
        ELSE {n \in Level(tree, t, TRUE, CHOOSE d \in ds : \A e \in ds : d <= e) :
                  KeyMatch(tree, n, key)}

\* every write of key = value lies further back in the history of every
\* cursor of the client than a nearer write of key
FurtherBack(v, client, key, value) ==
    /\ Len(v.cursors[client]) > 0
    /\ WritesOf(v.tree, key, value) # {}
    /\ \A i \in 1..Len(v.cursors[client]) :
        LET cur == v.cursors[client][i]
        IN  /\ \E n \in Nearest(v.tree, cur, key) : ~v.tree[n].root
            /\ \A n \in WritesOf(v.tree, key, value) :
                /\ n \in Ancestors(v.tree, cur)
                /\ n \notin Nearest(v.tree, cur, key)

WaitsFor(n, d) ==
    /\ call[n] # Idle
    /\ call[n].dst = d
    /\ lock[n]

\* C35 (no mutual wait): two replicas that each start a gossip exchange
\* towards the other at the same time both complete their exchange: no state
\* is reachable in which replica A waits for B to serve its gossip request
\* while B waits for A to serve its own.
NoMutualWait ==
    \A n \in Nodes, d \in Nodes :
        ~(n # d /\ WaitsFor(n, d) /\ WaitsFor(d, n) /\ Reachable(n, d))

\* ------------------------------------------------------------------------
\* Properties of the logs of the replicas
\* ------------------------------------------------------------------------
\* C36 (own entry counts the log): on every replica, in every reachable
\* state, the own entry of maxcc equals the number of columns in its events
\* log (maxcc[name] = len(events)): the entry rises by exactly one with each
\* local append (client write or accepted gossip column) and by nothing else.
OwnEntryCountsLog ==
    \A n \in Nodes : maxcc[n][n] = Len(events[n])

\* a replica has counted an event of its peer in maxcc and dropped the
\* column, and the peer has appended a column of its own and a column it
\* accepted from that replica
OwnEntryCountsLogWitness ==
    \E n \in Nodes, d \in Nodes, e \in 1..Len(minted), f \in 1..Len(minted) :
        /\ n # d
        /\ minted[e].node = d
        /\ minted[f].node = n
        /\ Holds(d, e)
        /\ ~Holds(n, e)
        /\ maxcc[n][d] >= minted[e].ctx[d]
        /\ Holds(d, f)
        /\ Len(events[d]) = 2

\* C37 (no duplicate column): the events log of a replica never contains two
\* columns with the same event id, after any sequence of writes and gossip,
\* including shipments that are replayed or duplicated, replies that list
\* the same column twice, and columns that were earlier dropped by the
\* tie-break and are shipped again.
NoDuplicateColumn ==
    \A n \in Nodes : \A i \in 1..Len(events[n]), j \in 1..Len(events[n]) :
        events[n][i].id = events[n][j].id => i = j

\* the replica holds a column and may be sent a shipment that lists twice a
\* column that it drops, and a shipment that lists twice a column that it
\* appends
NoDuplicateColumnWitness ==
    LET s == Replica("a")
    IN  /\ Len(s.events) > 0
        /\ \E col \in ShipColumns(s) :
            /\ LaterLocal(s, col)
            /\ playLog("a", s, <<col, col>>).s.events = s.events
        /\ \E col \in ShipColumns(s) :
            /\ Accepted(s, col)
            /\ Len(playLog("a", s, <<col, col>>).s.events) = Len(s.events) + 1

\* ------------------------------------------------------------------------
\* Properties of the contexts handed to the clients
\* ------------------------------------------------------------------------
\* C38 (client context monotone): the stored context of a client never
\* decreases in any entry across any sequence of reads and writes against
\* any replicas: every successful reply (read, new write, duplicate write)
\* carries a context that dominates the context sent with the request.
ContextMonotone ==
    [][/\ \A c \in Clients, k \in Nodes : context'[c][k] >= context[c][k]
       /\ (reply = NoReply /\ reply' # NoReply /\ reply'.status = 200) =>
             \A k \in Nodes : reply'.ctx[k] >= context[reply'.client][k]]_vars

\* a write that was already stored is being acknowledged with a context that
\* is above both the context the client sent and the context of the stored
\* column
ContextMonotoneWitness ==
    /\ reply # NoReply
    /\ reply.op = "write"
    /\ reply.status = 200
    /\ reply.ctx # context[reply.client]
    /\ reply.ctx # lookupID(Replica(reply.node), reply.id).context
    /\ \A k \in Nodes : reply.ctx[k] >= context[reply.client][k]

ReadNeedsWrite ==
    [][(/\ fed'.op = "read"
        /\ fed'.status = 200
        /\ WritesOf(validation.tree, fed'.key, fed'.value) = {}) =>
          validation'.err]_vars

====
